---- MODULE Spec2Model ----
(***************************************************************************)
(* bdsh watch mode: the output normalizer, the consensus engine, the       *)
(* selection state machine of the consensus view, the refresh loop of the  *)
(* interactive session and the event loop of the text (non-TTY) mode.      *)
(*                                                                         *)
(* A text is a sequence of characters, a character a one-token string.     *)
(* Control characters are written by name (ESC, BEL, CR, LF, ...).         *)
(***************************************************************************)
EXTENDS Integers, Sequences, FiniteSets, TLC

VARIABLES
    \* clean_terminal_output applied once and twice to a raw text
    nz_pc, nz_raw, nz_once, nz_twice,
    \* compute_consensus applied to a host list and its outputs
    cc_pc, cc_hosts, cc_outputs, cc_result,
    \* run_text_mode: main loop position, channel, stdin thread, counters
    tm_pc, tm_chan, tm_stdin, tm_sent, tm_redraws,
    \* run_tui / WatchApp: loop position and the fields of WatchApp
    pc, hosts, last_outputs, consensus_view, tail_mode, last_op,
    \* watch::run: the terminal modes, the restoring calls made, the result
    rn_raw, rn_alt, rn_calls, rn_result,
    \* WatchApp.keep_output, the .keep marker file, the events so far
    kp_keep_output, kp_marker, kp_trace,
    \* a function applied to arguments drawn from a bounded set
    fn_pc, fn_args, fn_result

nz_vars == <<nz_pc, nz_raw, nz_once, nz_twice>>
cc_vars == <<cc_pc, cc_hosts, cc_outputs, cc_result>>
tm_vars == <<tm_pc, tm_chan, tm_stdin, tm_sent, tm_redraws>>
app_vars == <<pc, hosts, last_outputs, consensus_view, tail_mode, last_op>>
rn_vars == <<rn_raw, rn_alt, rn_calls, rn_result>>
kp_vars == <<kp_keep_output, kp_marker, kp_trace>>
fn_vars == <<fn_pc, fn_args, fn_result>>
vars == <<nz_vars, cc_vars, tm_vars, app_vars, rn_vars, kp_vars, fn_vars>>

\* the variables of the later sections while another section runs
rn_Idle == rn_raw = FALSE /\ rn_alt = FALSE /\ rn_calls = {} /\ rn_result = "none"
kp_Idle == kp_keep_output = FALSE /\ kp_marker = FALSE /\ kp_trace = <<>>
fn_Idle == fn_pc = "off" /\ fn_args = <<>> /\ fn_result = <<>>
ext_vars == <<rn_vars, kp_vars, fn_vars>>
ext_Idle == rn_Idle /\ kp_Idle /\ fn_Idle

----------------------------------------------------------------------------
(* Bounds *)

\* longest raw text given to the normalizer (characters)
MaxRawLen == 3
\* most lines in one host's out.log
MaxLines == 2
\* most FileChange notifications the file watcher sends in one run
MaxFileEvents == 3
\* tallest viewport given to calculate_scroll_offset (rows)
MaxViewport == 3

----------------------------------------------------------------------------
(* Characters *)

ESC == "ESC"
BEL == "BEL"
ST == "ST"
OSC8 == "OSC8"
CR == "CR"
LF == "LF"
TAB == "TAB"
SP == " "
BSL == "BSL"

\* char::is_control: the Cc category (U+0000..U+001F, U+007F..U+009F)
is_control(c) == c \in {ESC, BEL, ST, OSC8, CR, LF, TAB}

is_ascii_digit(c) == c \in {"1", "2"}

is_ascii_alphabetic(c) == c \in {"a", "b", "d", "e", "h", "i", "l", "m", "o", "r", "w", "P"}

\* the text of a string literal of the source, character by character
Str_hello_cr_hi == <<"h", "e", "l", "l", "o", CR, "h", "i">>
Str_hillo == <<"h", "i", "l", "l", "o">>
Str_hello_cr_world == <<"h", "e", "l", "l", "o", CR, "w", "o", "r", "l", "d">>
Str_world == <<"w", "o", "r", "l", "d">>

----------------------------------------------------------------------------
(* Sequence helpers *)

Contains(s, c) == \E i \in 1..Len(s) : s[i] = c

\* all sequences over S of length at most n
SeqsUpTo(S, n) == UNION {[1..k -> S] : k \in 0..n}

\* str::lines: split at LF, a CR right before the LF belongs to the line
\* ending, a final line without LF is kept, no line after a trailing LF
RECURSIVE split_inclusive_lf(_, _)
split_inclusive_lf(s, cur) ==
    IF s = <<>> THEN (IF cur = <<>> THEN <<>> ELSE <<cur>>)
    ELSE IF Head(s) = LF THEN <<Append(cur, LF)>> \o split_inclusive_lf(Tail(s), <<>>)
    ELSE split_inclusive_lf(Tail(s), Append(cur, Head(s)))

strip_line_ending(l) ==
    IF l # <<>> /\ l[Len(l)] = LF
    THEN LET a == SubSeq(l, 1, Len(l) - 1)
         IN IF a # <<>> /\ a[Len(a)] = CR THEN SubSeq(a, 1, Len(a) - 1) ELSE a
    ELSE l

lines(s) ==
    LET parts == split_inclusive_lf(s, <<>>)
    IN [i \in 1..Len(parts) |-> strip_line_ending(parts[i])]

\* [String]::join("\n")
RECURSIVE join_lf(_)
join_lf(ls) ==
    IF ls = <<>> THEN <<>>
    ELSE IF Len(ls) = 1 THEN ls[1]
    ELSE ls[1] \o <<LF>> \o join_lf(Tail(ls))

\* str::split('\r'): the segments between CRs, empty ones included
RECURSIVE split_cr(_, _)
split_cr(s, cur) ==
    IF s = <<>> THEN <<cur>>
    ELSE IF Head(s) = CR THEN <<cur>> \o split_cr(Tail(s), <<>>)
    ELSE split_cr(Tail(s), Append(cur, Head(s)))

----------------------------------------------------------------------------
(* Output normalizer *)

\* the ESC-terminated tail of the OSC/DCS/bare-] loops: ESC was peeked at
\* position i; it is consumed, and a following backslash with it
after_esc_terminator(s, i) ==
    IF i + 1 <= Len(s) /\ s[i + 1] = BSL THEN i + 2 ELSE i + 1

\* CSI: consume up to and including the first ASCII letter; i is the first
\* position not yet consumed; the result is the next position to read
RECURSIVE skip_csi(_, _)
skip_csi(s, i) ==
    IF i > Len(s) THEN i
    ELSE IF is_ascii_alphabetic(s[i]) THEN i + 1
    ELSE skip_csi(s, i + 1)

\* OSC (after ESC ] or after the 8-bit introducer): until BEL, ST or ESC \
RECURSIVE skip_osc(_, _)
skip_osc(s, i) ==
    IF i > Len(s) THEN i
    ELSE IF s[i] = BEL \/ s[i] = ST THEN i + 1
    ELSE IF s[i] = ESC THEN after_esc_terminator(s, i)
    ELSE skip_osc(s, i + 1)

\* DCS: until ST or ESC \
RECURSIVE skip_dcs(_, _)
skip_dcs(s, i) ==
    IF i > Len(s) THEN i
    ELSE IF s[i] = ST THEN i + 1
    ELSE IF s[i] = ESC THEN after_esc_terminator(s, i)
    ELSE skip_dcs(s, i + 1)

\* bare ] followed by a digit: until BEL or ST (consumed), a space or LF
\* (left in place), or ESC \
RECURSIVE skip_bare_osc(_, _)
skip_bare_osc(s, i) ==
    IF i > Len(s) THEN i
    ELSE IF s[i] = BEL \/ s[i] = ST THEN i + 1
    ELSE IF s[i] = SP \/ s[i] = LF THEN i
    ELSE IF s[i] = ESC THEN after_esc_terminator(s, i)
    ELSE skip_bare_osc(s, i + 1)

\* the main loop of strip_ansi_and_control: c = s[i] is taken with
\* chars.next(), s[i + 1] is what chars.peek() then shows
RECURSIVE strip_from(_, _, _)
strip_from(s, i, result) ==
    IF i > Len(s) THEN result
    ELSE LET c == s[i]
             has_peek == i + 1 <= Len(s)
         IN IF c = ESC THEN
                IF has_peek /\ s[i + 1] = "[" THEN strip_from(s, skip_csi(s, i + 2), result)
                ELSE IF has_peek /\ s[i + 1] = "]" THEN strip_from(s, skip_osc(s, i + 2), result)
                ELSE IF has_peek /\ s[i + 1] = "P" THEN strip_from(s, skip_dcs(s, i + 2), result)
                ELSE strip_from(s, i + 2, result)
            ELSE IF c = OSC8 THEN strip_from(s, skip_osc(s, i + 1), result)
            ELSE IF c = "]" /\ has_peek /\ is_ascii_digit(s[i + 1])
                THEN strip_from(s, skip_bare_osc(s, i + 1), result)
            ELSE IF is_control(c) /\ c # TAB THEN strip_from(s, i + 1, result)
            ELSE strip_from(s, i + 1, Append(result, c))

strip_ansi_and_control(s) == strip_from(s, 1, <<>>)

\* one segment written over the accumulated line from column 0
overwrite_segment(result, segment) ==
    IF segment = <<>> THEN result
    ELSE IF Len(segment) >= Len(result) THEN segment
    ELSE [i \in 1..Len(result) |-> IF i <= Len(segment) THEN segment[i] ELSE result[i]]

RECURSIVE overwrite_all(_, _)
overwrite_all(result, segments) ==
    IF segments = <<>> THEN result
    ELSE overwrite_all(overwrite_segment(result, Head(segments)), Tail(segments))

\* the carriage-return block of clean_terminal_output, on one line
process_carriage_returns(line) ==
    IF Contains(line, CR) THEN overwrite_all(<<>>, split_cr(line, <<>>)) ELSE line

\* the closure mapped over the lines: strip first, then the CR block
clean_line(line) == process_carriage_returns(strip_ansi_and_control(line))

clean_terminal_output(raw) ==
    LET ls == lines(raw)
    IN join_lf([i \in 1..Len(ls) |-> clean_line(ls[i])])

----------------------------------------------------------------------------
(* The normalizer applied to bounded raw texts *)

RawChars == {"a", "1", "]", "[", "P", SP, BSL, ESC, BEL, ST, OSC8, CR, LF, TAB}

DocExamples == {Str_hello_cr_hi, Str_hello_cr_world}

RawTexts == SeqsUpTo(RawChars, MaxRawLen) \cup DocExamples

nz_Idle == nz_pc = "off" /\ nz_raw = <<>> /\ nz_once = <<>> /\ nz_twice = <<>>

InitNormalize ==
    /\ nz_pc = "raw"
    /\ nz_raw \in RawTexts
    /\ nz_once = <<>>
    /\ nz_twice = <<>>

\* read_output: the raw log is normalized
NormalizeOnce ==
    /\ nz_pc = "raw"
    /\ nz_once' = clean_terminal_output(nz_raw)
    /\ nz_pc' = "once"
    /\ UNCHANGED <<nz_raw, nz_twice, cc_vars, tm_vars, app_vars, ext_vars>>

\* the normalized text is normalized again
NormalizeTwice ==
    /\ nz_pc = "once"
    /\ nz_twice' = clean_terminal_output(nz_once)
    /\ nz_pc' = "twice"
    /\ UNCHANGED <<nz_raw, nz_once, cc_vars, tm_vars, app_vars, ext_vars>>

----------------------------------------------------------------------------
(* Consensus engine *)

None == <<>>
Some(k) == <<k>>

\* ConsensusLine::Identical(content)
Identical(content) == [kind |-> "Identical", content |-> content]

\* ConsensusLine::Differs { consensus, variants, missing, expanded, expanded_hosts };
\* variants is the IndexMap in iteration order: entries [content, hosts]
Differs(consensus, variants, missing, expanded, expanded_hosts) ==
    [kind |-> "Differs", consensus |-> consensus, variants |-> variants,
     missing |-> missing, expanded |-> expanded, expanded_hosts |-> expanded_hosts]

\* an entry whose hosts are collected in reverse order
entry_push_in_front(variants, content, host) ==
    IF \E i \in 1..Len(variants) : variants[i].content = content
    THEN [i \in 1..Len(variants) |->
            IF variants[i].content = content
            THEN [content |-> content, hosts |-> <<host>> \o variants[i].hosts]
            ELSE variants[i]]
    ELSE Append(variants, [content |-> content, hosts |-> <<host>>])

\* variants.entry(content).or_insert_with(Vec::new).push(host)
entry_push(variants, content, host) ==
    IF \E i \in 1..Len(variants) : variants[i].content = content
    THEN [i \in 1..Len(variants) |->
            IF variants[i].content = content
            THEN [content |-> content, hosts |-> Append(variants[i].hosts, host)]
            ELSE variants[i]]
    ELSE Append(variants, [content |-> content, hosts |-> <<host>>])

\* the loop over host_lines at one line position (0-based line_idx), from
\* the k-th host on, with the variants and missing collected so far
RECURSIVE collect_position(_, _, _, _, _)
collect_position(host_lines, line_idx, k, variants, missing) ==
    IF k > Len(host_lines) THEN [variants |-> variants, missing |-> missing]
    ELSE LET hl == host_lines[k]
         IN IF line_idx < Len(hl.lines)
            THEN collect_position(host_lines, line_idx, k + 1,
                     entry_push(variants, hl.lines[line_idx + 1], hl.host), missing)
            ELSE collect_position(host_lines, line_idx, k + 1,
                     variants, Append(missing, hl.host))

\* the line count of the first host instead of the largest one
max_line_count_first(host_lines) ==
    IF host_lines = <<>> THEN 0 ELSE Len(Head(host_lines).lines)

\* Iterator::max over the line counts, 0 for no host
RECURSIVE max_line_count(_)
max_line_count(host_lines) ==
    IF host_lines = <<>> THEN 0
    ELSE LET rest == max_line_count(Tail(host_lines))
             n == Len(Head(host_lines).lines)
         IN IF n >= rest THEN n ELSE rest

\* Iterator::max_by_key(|(_, hosts)| hosts.len()): of several maximal
\* elements the last one is returned
RECURSIVE max_by_key_len(_, _)
max_by_key_len(variants, best) ==
    IF variants = <<>> THEN best
    ELSE max_by_key_len(Tail(variants),
             IF Len(Head(variants).hosts) >= Len(best.hosts) THEN Head(variants) ELSE best)

\* the content of the most common variant, "" (unwrap_or_default) for none
most_common(variants) ==
    IF variants = <<>> THEN <<>>
    ELSE max_by_key_len(Tail(variants), Head(variants)).content

\* an unstable sort: e goes in front of the elements of its own size
insert_by_len_desc_unstable(sorted, e) ==
    LET before == {i \in 1..Len(sorted) : Len(sorted[i].hosts) <= Len(e.hosts)}
        pos == IF before = {} THEN Len(sorted) + 1
               ELSE CHOOSE i \in before : \A j \in before : i <= j
    IN SubSeq(sorted, 1, pos - 1) \o <<e>> \o SubSeq(sorted, pos, Len(sorted))

\* slice::sort_by(|a, b| b.1.len().cmp(&a.1.len())): stable, descending by
\* group size; e goes behind every element that is not smaller than it
insert_by_len_desc(sorted, e) ==
    LET before == {i \in 1..Len(sorted) : Len(sorted[i].hosts) < Len(e.hosts)}
        pos == IF before = {} THEN Len(sorted) + 1
               ELSE CHOOSE i \in before : \A j \in before : i <= j
    IN SubSeq(sorted, 1, pos - 1) \o <<e>> \o SubSeq(sorted, pos, Len(sorted))

RECURSIVE sort_by_len_desc_from(_, _)
sort_by_len_desc_from(sorted, rest) ==
    IF rest = <<>> THEN sorted
    ELSE sort_by_len_desc_from(insert_by_len_desc(sorted, Head(rest)), Tail(rest))

sorted_variants(variants) == sort_by_len_desc_from(<<>>, variants)

\* a Differs line created with the host list of its consensus expanded
make_differs_with_host_list(variants, missing) ==
    Differs(most_common(variants), sorted_variants(variants), missing, FALSE,
            {most_common(variants)})

make_differs(variants, missing) ==
    Differs(most_common(variants), sorted_variants(variants), missing, FALSE, {})

\* the test without its second half
all_same_content_ignoring_missing(variants, missing) == Len(variants) = 1

\* the test that makes a position Identical
all_same_content(variants, missing) == Len(variants) = 1 /\ missing = <<>>

consensus_at(host_lines, line_idx) ==
    LET c == collect_position(host_lines, line_idx, 1, <<>>, <<>>)
    IN IF all_same_content(c.variants, c.missing)
       THEN Identical(c.variants[1].content)
       ELSE make_differs(c.variants, c.missing)

\* hosts: the host list in order; outputs: host -> normalized text
compute_consensus(hs, outputs) ==
    IF hs = <<>> THEN <<>>
    ELSE LET host_lines == [k \in 1..Len(hs) |-> [host |-> hs[k], lines |-> lines(outputs[hs[k]])]]
             max_lines == max_line_count(host_lines)
         IN [p \in 1..max_lines |-> consensus_at(host_lines, p - 1)]

----------------------------------------------------------------------------
(* The consensus engine applied to bounded host lists and outputs *)

\* the host directories that may exist, in sorted order
HostNames == <<"h1", "h2", "h3">>

\* the sorted host lists: the subsequences of HostNames
RECURSIVE pick_hosts(_, _)
pick_hosts(names, S) ==
    IF names = <<>> THEN <<>>
    ELSE (IF Head(names) \in S THEN <<Head(names)>> ELSE <<>>) \o pick_hosts(Tail(names), S)

HostLists == {pick_hosts(HostNames, S) : S \in SUBSET {HostNames[i] : i \in 1..Len(HostNames)}}

Range(s) == {s[i] : i \in 1..Len(s)}

\* the contents one line of a log may have
LineContents == {<<"a">>, <<"b">>}

\* a log: up to MaxLines lines, each ended by LF
RECURSIVE concat_lines(_)
concat_lines(ls) ==
    IF ls = <<>> THEN <<>> ELSE Head(ls) \o <<LF>> \o concat_lines(Tail(ls))

LogTexts == {concat_lines(ls) : ls \in SeqsUpTo(LineContents, MaxLines)}

\* what read_output returns for such a log
NormalizedLogs == {clean_terminal_output(t) : t \in LogTexts}

cc_Idle == cc_pc = "off" /\ cc_hosts = <<>> /\ cc_outputs = <<>> /\ cc_result = <<>>

InitConsensus ==
    /\ cc_pc = "input"
    /\ cc_hosts \in HostLists
    /\ cc_outputs \in [Range(cc_hosts) -> NormalizedLogs]
    /\ cc_result = <<>>

\* render_text_consensus: the consensus of the outputs read
ComputeConsensus ==
    /\ cc_pc = "input"
    /\ cc_result' = compute_consensus(cc_hosts, cc_outputs)
    /\ cc_pc' = "computed"
    /\ UNCHANGED <<cc_hosts, cc_outputs, nz_vars, tm_vars, app_vars, ext_vars>>

----------------------------------------------------------------------------
(* ConsensusView: consensus, selection { line_index, variant_index },     *)
(* has_hosts.  line_index and variant_index count from 0 as in the source; *)
(* the k-th line (0-based) is consensus[k + 1].                            *)

\* the key of the missing pseudo-variant in expanded_hosts: "<missing>"
Str_missing == <<"<", "m", "i", "s", "s", "i", "n", "g", ">">>

\* ConsensusView::new (Default)
new_view == [consensus |-> <<>>,
             selection |-> [line_index |-> 0, variant_index |-> None],
             has_hosts |-> FALSE]

\* consensus.get(i) is Some(Differs { expanded: true, .. })
is_expanded_differs(consensus, i) ==
    /\ i < Len(consensus)
    /\ consensus[i + 1].kind = "Differs"
    /\ consensus[i + 1].expanded

\* consensus.get(i) is Some(Differs { .. })
is_differs(consensus, i) ==
    /\ i < Len(consensus)
    /\ consensus[i + 1].kind = "Differs"

\* variants.len() + if missing.is_empty() { 0 } else { 1 }
variant_count(line) == Len(line.variants) + (IF line.missing = <<>> THEN 0 ELSE 1)

\* usize::saturating_sub(1)
saturating_pred(n) == IF n = 0 THEN 0 ELSE n - 1

set_selection(cv, li, vi) ==
    [cv EXCEPT !.selection = [line_index |-> li, variant_index |-> vi]]

\* update_consensus without the clamp
clamp_selection_unclamped(cv) == cv

clamp_selection(cv) ==
    LET max_line == saturating_pred(Len(cv.consensus))
    IN IF cv.selection.line_index > max_line
       THEN [cv EXCEPT !.selection.line_index = max_line]
       ELSE cv

update_consensus(cv, new_consensus, has_hosts) ==
    clamp_selection([cv EXCEPT !.consensus = new_consensus, !.has_hosts = has_hosts])

\* a scroll_to_end that always selects the main row of the last line
scroll_to_end_main_row(cv) ==
    IF cv.consensus # <<>>
    THEN set_selection(cv, Len(cv.consensus) - 1, None)
    ELSE cv

scroll_to_end(cv) ==
    IF cv.consensus # <<>>
    THEN LET last == Len(cv.consensus) - 1
             moved == [cv EXCEPT !.selection.line_index = last]
         IN IF is_expanded_differs(cv.consensus, last)
            THEN LET n == variant_count(cv.consensus[last + 1])
                 IN IF n > 0 THEN [moved EXCEPT !.selection.variant_index = Some(n - 1)]
                    ELSE moved
            ELSE [moved EXCEPT !.selection.variant_index = None]
    ELSE cv

scroll_up(cv) ==
    LET sel == cv.selection
    IN IF sel.variant_index # None
       THEN IF sel.variant_index[1] > 0
            THEN [cv EXCEPT !.selection.variant_index = Some(sel.variant_index[1] - 1)]
            ELSE [cv EXCEPT !.selection.variant_index = None]
       ELSE IF sel.line_index > 0
            THEN LET prev == sel.line_index - 1
                     moved == [cv EXCEPT !.selection.line_index = prev]
                 IN IF is_expanded_differs(cv.consensus, prev)
                       /\ variant_count(cv.consensus[prev + 1]) > 0
                    THEN [moved EXCEPT !.selection.variant_index =
                              Some(variant_count(cv.consensus[prev + 1]) - 1)]
                    ELSE moved
            ELSE cv

\* the tail of scroll_down: "Move to next consensus line"
move_to_next_line(cv) ==
    LET cleared == [cv EXCEPT !.selection.variant_index = None]
    IN IF cv.selection.line_index < saturating_pred(Len(cv.consensus))
       THEN [cleared EXCEPT !.selection.line_index = cv.selection.line_index + 1]
       ELSE cleared

\* a scroll_down that never enters the variant rows
scroll_down_over_variants(cv) == move_to_next_line(cv)

scroll_down(cv) ==
    LET sel == cv.selection
    IN IF is_expanded_differs(cv.consensus, sel.line_index)
       THEN LET n == variant_count(cv.consensus[sel.line_index + 1])
            IN IF sel.variant_index # None
               THEN IF sel.variant_index[1] + 1 < n
                    THEN [cv EXCEPT !.selection.variant_index = Some(sel.variant_index[1] + 1)]
                    ELSE move_to_next_line(cv)
               ELSE IF n > 0
                    THEN [cv EXCEPT !.selection.variant_index = Some(0)]
                    ELSE move_to_next_line(cv)
       ELSE move_to_next_line(cv)

\* a toggle that acts only when the main row is selected
toggle_expand_on_main_row(cv) ==
    LET i == cv.selection.line_index
    IN IF is_differs(cv.consensus, i) /\ cv.selection.variant_index = None
       THEN [cv EXCEPT !.consensus[i + 1].expanded = ~cv.consensus[i + 1].expanded]
       ELSE cv

toggle_expand(cv) ==
    LET i == cv.selection.line_index
    IN IF is_differs(cv.consensus, i)
       THEN [cv EXCEPT !.consensus[i + 1].expanded = ~cv.consensus[i + 1].expanded]
       ELSE cv

\* an expand_selected that expands the host list of a single host too
expand_selected_any_group(cv) ==
    LET i == cv.selection.line_index
        vi == cv.selection.variant_index
    IN IF ~is_differs(cv.consensus, i) THEN cv
       ELSE IF ~cv.consensus[i + 1].expanded
       THEN [cv EXCEPT !.consensus[i + 1].expanded = TRUE]
       ELSE IF vi = None THEN cv
       ELSE [cv EXCEPT !.consensus[i + 1].expanded_hosts =
                 @ \cup {IF vi[1] < Len(cv.consensus[i + 1].variants)
                         THEN cv.consensus[i + 1].variants[vi[1] + 1].content
                         ELSE Str_missing}]

expand_selected(cv) ==
    LET i == cv.selection.line_index
        vi == cv.selection.variant_index
    IN IF is_differs(cv.consensus, i)
       THEN LET line == cv.consensus[i + 1]
            IN IF ~line.expanded
               THEN [cv EXCEPT !.consensus[i + 1].expanded = TRUE]
               ELSE IF vi # None
               THEN IF vi[1] < Len(line.variants)
                    THEN IF Len(line.variants[vi[1] + 1].hosts) > 1
                         THEN [cv EXCEPT !.consensus[i + 1].expanded_hosts =
                                   line.expanded_hosts \cup {line.variants[vi[1] + 1].content}]
                         ELSE cv
                    ELSE IF vi[1] = Len(line.variants) /\ line.missing # <<>>
                              /\ Len(line.missing) > 1
                         THEN [cv EXCEPT !.consensus[i + 1].expanded_hosts =
                                   line.expanded_hosts \cup {Str_missing}]
                         ELSE cv
               ELSE cv
       ELSE cv

\* a collapse_selected that collapses the line before the host list and
\* keeps expanded_hosts
collapse_selected_line_first(cv) ==
    LET i == cv.selection.line_index
    IN IF is_expanded_differs(cv.consensus, i)
       THEN [cv EXCEPT !.consensus[i + 1].expanded = FALSE]
       ELSE cv

collapse_selected(cv) ==
    LET i == cv.selection.line_index
        vi == cv.selection.variant_index
    IN IF is_differs(cv.consensus, i)
       THEN LET line == cv.consensus[i + 1]
            IN IF vi # None
               THEN LET key == IF vi[1] < Len(line.variants)
                               THEN line.variants[vi[1] + 1].content
                               ELSE Str_missing
                    IN IF key \in line.expanded_hosts
                       THEN [cv EXCEPT !.consensus[i + 1].expanded_hosts =
                                 line.expanded_hosts \ {key}]
                       ELSE IF vi[1] > 0
                            THEN [cv EXCEPT !.selection.variant_index = Some(vi[1] - 1)]
                            ELSE [cv EXCEPT !.selection.variant_index = None]
               ELSE IF line.expanded
                    THEN [cv EXCEPT !.consensus[i + 1].expanded = FALSE,
                                    !.consensus[i + 1].expanded_hosts = {}]
                    ELSE cv
       ELSE cv

set_expanded(line, e) ==
    IF line.kind = "Differs" THEN [line EXCEPT !.expanded = e] ELSE line

expand_all(cv) ==
    [cv EXCEPT !.consensus = [k \in 1..Len(cv.consensus) |-> set_expanded(cv.consensus[k], TRUE)]]

\* a collapse_all that forgets the expanded host lists
collapse_all_clearing_hosts(cv) ==
    [cv EXCEPT !.consensus =
        [k \in 1..Len(cv.consensus) |->
            IF cv.consensus[k].kind = "Differs"
            THEN [cv.consensus[k] EXCEPT !.expanded = FALSE, !.expanded_hosts = {}]
            ELSE cv.consensus[k]]]

collapse_all(cv) ==
    [cv EXCEPT !.consensus = [k \in 1..Len(cv.consensus) |-> set_expanded(cv.consensus[k], FALSE)]]

\* the least element of a non-empty set of naturals
Least(S) == CHOOSE i \in S : \A j \in S : i <= j

\* a jump that does not wrap around
jump_to_next_diff_no_wrap(cv) ==
    LET after == {i \in (cv.selection.line_index + 1)..(Len(cv.consensus) - 1) :
                     is_differs(cv.consensus, i)}
    IN IF after # {} THEN [cv EXCEPT !.selection.line_index = Least(after)] ELSE cv

jump_to_next_diff(cv) ==
    LET start == cv.selection.line_index + 1
        n == Len(cv.consensus)
        after == {i \in start..(n - 1) : is_differs(cv.consensus, i)}
        wrapped == {i \in 0..((IF start < n THEN start ELSE n) - 1) : is_differs(cv.consensus, i)}
    IN IF after # {} THEN [cv EXCEPT !.selection.line_index = Least(after)]
       ELSE IF wrapped # {} THEN [cv EXCEPT !.selection.line_index = Least(wrapped)]
       ELSE cv

----------------------------------------------------------------------------
(* Rendering: build_display_lines gives one record per Line it pushes,     *)
(* with the texts of its spans and whether it carries the selection style. *)

Digits == <<"0", "1", "2", "3", "4", "5", "6", "7", "8", "9">>

\* usize formatted with {}: its decimal digits
RECURSIVE decimal(_)
decimal(n) ==
    IF n < 10 THEN <<Digits[n + 1]>> ELSE decimal(n \div 10) \o <<Digits[(n % 10) + 1]>>

\* [String]::join(","): the host names with commas between them
RECURSIVE join_comma(_)
join_comma(hs) ==
    IF hs = <<>> THEN <<>>
    ELSE IF Len(hs) = 1 THEN hs
    ELSE <<Head(hs), ",">> \o join_comma(Tail(hs))

\* format_gutter: the text as a sequence of host names and characters
format_gutter(hs, expanded) ==
    IF Len(hs) = 1 THEN <<hs[1]>>
    ELSE IF expanded THEN join_comma(hs)
    ELSE <<"[">> \o decimal(Len(hs)) \o <<"]">>

\* the four hosts of the views that show host groups
GroupHosts == <<"h1", "h2", "h3", "h4">>

\* String::len of a gutter text: every host name of the model has 2 bytes
RECURSIVE text_len(_)
text_len(t) ==
    IF t = <<>> THEN 0
    ELSE (IF Head(t) \in Range(HostNames) \cup Range(GroupHosts) THEN 2 ELSE 1)
            + text_len(Tail(t))

gutter_width(hs, expanded) == text_len(format_gutter(hs, expanded))

Max2(a, b) == IF a >= b THEN a ELSE b

\* max_gutter_width: the widest gutter of the variants and the missing
\* row, at least 4
max_gutter_width(variants, missing, expanded_hosts) ==
    LET widths == {gutter_width(variants[k].hosts, variants[k].content \in expanded_hosts) :
                      k \in 1..Len(variants)}
                  \cup (IF missing = <<>> THEN {}
                        ELSE {gutter_width(missing, Str_missing \in expanded_hosts)})
    IN IF widths = {} THEN 4
       ELSE Max2(CHOOSE w \in widths : \A v \in widths : v <= w, 4)

\* truncate: at most max_chars characters, the last three "..." when cut
\* char::len_utf8 of the characters of the model: e with acute accent has
\* two bytes, the party popper four, every other character one
E_ACUTE == "U+00E9"
PARTY_POPPER == "U+1F389"
len_utf8(c) == IF c = E_ACUTE THEN 2 ELSE IF c = PARTY_POPPER THEN 4 ELSE 1

\* str::len: the number of bytes
RECURSIVE byte_len(_)
byte_len(str) == IF str = <<>> THEN 0 ELSE len_utf8(Head(str)) + byte_len(Tail(str))

\* the first n bytes of str read back as characters; a character cut in
\* the middle is read as U+FFFD
RECURSIVE take_bytes(_, _)
take_bytes(str, n) ==
    IF str = <<>> \/ n = 0 THEN <<>>
    ELSE IF len_utf8(Head(str)) <= n
         THEN <<Head(str)>> \o take_bytes(Tail(str), n - len_utf8(Head(str)))
         ELSE <<"U+FFFD">>

\* truncate counting and cutting bytes
truncate_bytes(str, max_chars) ==
    IF byte_len(str) <= max_chars THEN str
    ELSE take_bytes(str, IF max_chars >= 3 THEN max_chars - 3 ELSE 0) \o <<".", ".", ".">>

truncate(str, max_chars) ==
    IF Len(str) <= max_chars THEN str
    ELSE SubSeq(str, 1, IF max_chars >= 3 THEN max_chars - 3 ELSE 0) \o <<".", ".", ".">>

\* the Lines of the consensus line i (0-based), before the viewport test
display_rows_of_line(cv, i) ==
    LET line == cv.consensus[i + 1]
        is_selected == i = cv.selection.line_index
    IN IF line.kind = "Identical"
       THEN <<[row |-> "identical", line |-> i, selected |-> is_selected,
               content |-> line.content]>>
       ELSE LET main == [row |-> "main", line |-> i,
                         selected |-> is_selected /\ cv.selection.variant_index = None,
                         marker |-> IF line.expanded THEN "v" ELSE ">",
                         count |-> Len(line.variants),
                         content |-> line.consensus]
                max_width == max_gutter_width(line.variants, line.missing, line.expanded_hosts)
                variant_rows ==
                    [k \in 1..Len(line.variants) |->
                        [row |-> "variant", line |-> i, idx |-> k - 1,
                         selected |-> is_selected /\ cv.selection.variant_index = Some(k - 1),
                         gutter |-> format_gutter(line.variants[k].hosts,
                                                  line.variants[k].content \in line.expanded_hosts),
                         width |-> max_width,
                         content |-> truncate(line.variants[k].content, 60)]]
                missing_rows ==
                    IF line.missing = <<>> THEN <<>>
                    ELSE <<[row |-> "missing", line |-> i, idx |-> Len(line.variants),
                            selected |-> is_selected
                                /\ cv.selection.variant_index = Some(Len(line.variants)),
                            gutter |-> format_gutter(line.missing,
                                                     Str_missing \in line.expanded_hosts),
                            width |-> max_width,
                            content |-> Str_missing]>>
            IN IF line.expanded THEN <<main>> \o variant_rows \o missing_rows ELSE <<main>>

\* the Lines of the first n consensus lines, current_row counting them
RECURSIVE display_rows_upto(_, _)
display_rows_upto(cv, n) ==
    IF n = 0 THEN <<>>
    ELSE display_rows_upto(cv, n - 1) \o display_rows_of_line(cv, n - 1)

\* build_display_lines with the "(no output yet)" placeholder only
build_display_lines_one_placeholder(cv, scroll_offset, viewport_height) ==
    LET all == display_rows_upto(cv, Len(cv.consensus))
        last == IF scroll_offset + viewport_height < Len(all)
                THEN scroll_offset + viewport_height ELSE Len(all)
        shown == SubSeq(all, scroll_offset + 1, last)
    IN IF shown = <<>> THEN <<[row |-> "no_output"]>> ELSE shown

build_display_lines(cv, scroll_offset, viewport_height) ==
    LET all == display_rows_upto(cv, Len(cv.consensus))
        last == IF scroll_offset + viewport_height < Len(all)
                THEN scroll_offset + viewport_height ELSE Len(all)
        shown == SubSeq(all, scroll_offset + 1, last)
    IN IF shown = <<>> /\ ~cv.has_hosts THEN <<[row |-> "no_hosts"]>>
       ELSE IF shown = <<>> THEN <<[row |-> "no_output"]>>
       ELSE shown

----------------------------------------------------------------------------
(* Scrolling of the viewport *)

\* the loop of selected_display_row over the lines before line_index
RECURSIVE display_row_before(_, _)
display_row_before(consensus, n) ==
    IF n = 0 THEN 0
    ELSE display_row_before(consensus, n - 1)
            + (IF consensus[n].kind = "Identical" THEN 1
               ELSE IF consensus[n].expanded
                    THEN 1 + Len(consensus[n].variants)
                           + (IF consensus[n].missing = <<>> THEN 0 ELSE 1)
                    ELSE 1)

\* selected_display_row: the loop breaks at line_index, after adding the
\* offset of the selected variant; it ends without it when no line has
\* that index
selected_display_row(cv) ==
    IF cv.selection.line_index < Len(cv.consensus)
    THEN display_row_before(cv.consensus, cv.selection.line_index)
            + (IF cv.selection.variant_index # None
               THEN 1 + cv.selection.variant_index[1] ELSE 0)
    ELSE display_row_before(cv.consensus, Len(cv.consensus))

\* an offset that puts the selected row on top of the viewport
calculate_scroll_offset_on_top(cv, viewport_height) == selected_display_row(cv)

\* calculate_scroll_offset: scroll_offset starts at 0 in every call
calculate_scroll_offset(cv, viewport_height) ==
    LET row == selected_display_row(cv)
        scroll_offset == 0
    IN IF row < scroll_offset THEN row
       ELSE IF row >= scroll_offset + viewport_height
            THEN (IF row >= viewport_height THEN row - viewport_height ELSE 0) + 1
            ELSE scroll_offset

----------------------------------------------------------------------------
(* WatchApp and the loop of run_tui.  pc is the position of the loop:     *)
(* "init" before the initial refresh, "poll" at event::poll, "refresh"    *)
(* after the key was handled, "done" after a quit key, "failed" when the  *)
(* initial refresh returned an error.  last_op is the kind of the step    *)
(* taken last ("new", "key", "quit" or the outcome of the refresh) and    *)
(* whether its clamp_selection moved line_index; after a refresh that     *)
(* returned Ok also the output directory as that refresh read it (disk).  *)

\* The output directory as the session finds it at a refresh: for every
\* host name either no directory (NoDir) or the number of lines its out.log
\* holds.  The log of a host is a prefix of the output its command prints
\* (CommandOutput); between two refreshes it may grow, be rewritten shorter,
\* appear or disappear.
NoDir == -1

CommandOutput ==
    [h \in Range(HostNames) |->
        CASE h = "h1" -> <<<<"a">>, <<"b">>, <<"a">>, <<"b">>>>
          [] h = "h2" -> <<<<"a">>, <<"a">>, <<"a">>, <<"b">>>>
          [] OTHER    -> <<<<"b">>, <<"a">>, <<"a">>, <<"a">>>>]

Disks == [Range(HostNames) -> {NoDir} \cup 0..MaxLines]

\* discover_hosts: the host directories, sorted
discover_hosts(d) == pick_hosts(HostNames, {h \in Range(HostNames) : d[h] # NoDir})

\* read_raw_output: the content of <host>/out.log
read_raw_output(d, h) ==
    concat_lines([k \in 1..d[h] |-> CommandOutput[h][((k - 1) % 4) + 1]])

\* read_output
read_output(d, h) == clean_terminal_output(read_raw_output(d, h))

\* a function evaluated once on its whole domain and kept as a table
Tabulated(f) == f @@ <<>>

\* what one refresh reads from each disk and computes from it: pure
\* functions of the disk, evaluated once per disk
DiskHosts == Tabulated([d \in Disks |-> discover_hosts(d)])

DiskOutputs ==
    Tabulated([d \in Disks |-> Tabulated([h \in Range(discover_hosts(d)) |-> read_output(d, h)])])

DiskConsensus == Tabulated([d \in Disks |-> compute_consensus(DiskHosts[d], DiskOutputs[d])])

EmptyMap == Tabulated([h \in {} |-> <<>>])

Op(name) == [op |-> name, clamped |-> FALSE]

\* the line indices whose expanded flag is saved before a recompute
expanded_indices(consensus) ==
    {i \in 0..(Len(consensus) - 1) : is_expanded_differs(consensus, i)}

\* a recompute that restores no flag
restore_expanded_none(new_consensus, indices) == new_consensus

\* the saved flags restored on the lines that still exist and are Differs
restore_expanded(new_consensus, indices) ==
    [k \in 1..Len(new_consensus) |->
        IF (k - 1) \in indices /\ new_consensus[k].kind = "Differs"
        THEN [new_consensus[k] EXCEPT !.expanded = TRUE]
        ELSE new_consensus[k]]

\* a refresh that rebuilds the consensus whether the outputs changed or not
refresh_view_always_rebuilt(cv, cached, hs, outputs, computed) ==
    IF hs # <<>>
    THEN update_consensus(cv, restore_expanded(computed, expanded_indices(cv.consensus)), TRUE)
    ELSE update_consensus(cv, <<>>, FALSE)

\* a refresh that rebuilds the consensus only when the set of hosts changed
refresh_view_when_hosts_change(cv, cached, hs, outputs, computed) ==
    IF hs # <<>>
    THEN IF DOMAIN outputs # DOMAIN cached
         THEN update_consensus(cv,
                  restore_expanded(computed, expanded_indices(cv.consensus)),
                  TRUE)
         ELSE cv
    ELSE update_consensus(cv, <<>>, FALSE)

\* the consensus_view part of WatchApp::refresh, for the host list hs found
\* and outputs (host -> normalized text); the result is the new view
refresh_view(cv, cached, hs, outputs, computed) ==
    IF hs # <<>>
    THEN IF outputs # cached
         THEN update_consensus(cv,
                  restore_expanded(computed, expanded_indices(cv.consensus)),
                  TRUE)
         ELSE cv
    ELSE update_consensus(cv, <<>>, FALSE)

refresh_cache(cached, hs, outputs) == IF hs # <<>> THEN outputs ELSE EmptyMap

\* whether update_consensus ran in this refresh and found line_index past the end
refresh_clamped(cv, cached, hs, outputs, computed) ==
    /\ hs = <<>> \/ outputs # cached
    /\ LET n == IF hs = <<>> THEN 0 ELSE Len(computed)
       IN cv.selection.line_index > saturating_pred(n)

refresh_outcome(cached, hs, outputs) ==
    IF hs = <<>> THEN "refresh_no_hosts"
    ELSE IF outputs # cached THEN "refresh_recomputed"
    ELSE "refresh_unchanged"

\* a loop that never follows the end of the output
follow_tail_never(cv, tail) == cv

\* run_tui after a refresh: if state.tail_mode { scroll_to_end() }
follow_tail(cv, tail) == IF tail THEN scroll_to_end(cv) ELSE cv

\* the variables run_tui never touches
other_than_app == <<nz_vars, cc_vars, tm_vars, ext_vars>>

\* WatchApp::new
InitApp ==
    /\ pc = "init"
    /\ hosts = <<>>
    /\ last_outputs = EmptyMap
    /\ consensus_view = new_view
    /\ tail_mode = TRUE
    /\ last_op = Op("new")

app_Idle ==
    /\ pc = "off"
    /\ hosts = <<>>
    /\ last_outputs = EmptyMap
    /\ consensus_view = new_view
    /\ tail_mode = TRUE
    /\ last_op = Op("new")

\* state.refresh() succeeds (the initial one and the one of every loop
\* iteration) on the output directory d, then the tail-mode scroll_to_end
\* that follows it in run_tui
Refresh ==
    /\ pc \in {"init", "refresh"}
    /\ \E d \in Disks :
          LET hs == DiskHosts[d]
              outputs == DiskOutputs[d]
              computed == DiskConsensus[d]
          IN /\ hosts' = hs
             /\ consensus_view' =
                    follow_tail(refresh_view(consensus_view, last_outputs, hs, outputs, computed),
                                tail_mode)
             /\ last_outputs' = refresh_cache(last_outputs, hs, outputs)
             /\ last_op' = [op |-> refresh_outcome(last_outputs, hs, outputs),
                            clamped |-> refresh_clamped(consensus_view, last_outputs, hs, outputs, computed),
                            disk |-> d]
    /\ pc' = "poll"
    /\ UNCHANGED <<tail_mode, other_than_app>>

\* discover_hosts returns an error: refresh returns it before anything is
\* assigned; run_tui returns it from the initial refresh and drops it in
\* the loop, where the tail-mode scroll_to_end still follows
RefreshError ==
    /\ pc \in {"init", "refresh"}
    /\ pc' = IF pc = "init" THEN "failed" ELSE "poll"
    /\ consensus_view' = IF pc = "init" THEN consensus_view
                         ELSE follow_tail(consensus_view, tail_mode)
    /\ last_op' = Op("refresh_failed")
    /\ UNCHANGED <<hosts, last_outputs, tail_mode, other_than_app>>

\* a key handled by a method of ConsensusView that leaves tail_mode alone
ViewKey(new_cv) ==
    /\ pc = "poll"
    /\ consensus_view' = new_cv
    /\ last_op' = Op("key")
    /\ pc' = "refresh"
    /\ UNCHANGED <<hosts, last_outputs, tail_mode, other_than_app>>

\* a key handled by a scroll method of WatchApp: manual scroll disables tail
ScrollKey(new_cv) ==
    /\ pc = "poll"
    /\ consensus_view' = new_cv
    /\ tail_mode' = FALSE
    /\ last_op' = Op("key")
    /\ pc' = "refresh"
    /\ UNCHANGED <<hosts, last_outputs, other_than_app>>

ScrollUp == ScrollKey(scroll_up(consensus_view))

\* a scroll_down of WatchApp that leaves tail mode alone
ScrollDownKeepingTail == ViewKey(scroll_down(consensus_view))

ScrollDown == ScrollKey(scroll_down(consensus_view))

ToggleExpand == ViewKey(toggle_expand(consensus_view))

ExpandSelected == ViewKey(expand_selected(consensus_view))

CollapseSelected == ViewKey(collapse_selected(consensus_view))

ExpandAll == ViewKey(expand_all(consensus_view))

CollapseAll == ViewKey(collapse_all(consensus_view))

JumpToNextDiff == ViewKey(jump_to_next_diff(consensus_view))

ToggleTail ==
    /\ pc = "poll"
    /\ tail_mode' = ~tail_mode
    /\ consensus_view' = follow_tail(consensus_view, ~tail_mode)
    /\ last_op' = Op("key")
    /\ pc' = "refresh"
    /\ UNCHANGED <<hosts, last_outputs, other_than_app>>

\* the poll timed out, or the event was no key press the loop handles
NoKey == ViewKey(consensus_view)

\* q, Q, Esc, Ctrl-D, Ctrl-C: break
Quit ==
    /\ pc = "poll"
    /\ pc' = "done"
    /\ last_op' = Op("quit")
    /\ UNCHANGED <<hosts, last_outputs, consensus_view, tail_mode, other_than_app>>

----------------------------------------------------------------------------
(* run_text_mode: the main loop, the file watcher callback and the stdin   *)
(* watcher thread, which share the mpsc channel.  tm_pc is the position of *)
(* the main loop: "recv" at rx.recv_timeout, "drain" in the debounce loop  *)
(* at rx.try_recv, "render" before the redraw, "exited" after the break,   *)
(* "failed" when the redraw returned an error.  The watcher keeps its      *)
(* sender until run_text_mode returns, so recv never sees Disconnected.    *)

FileChange == "FileChange"
StdinClosed == "StdinClosed"

tm_Idle == tm_pc = "off" /\ tm_chan = <<>> /\ tm_stdin = "off" /\ tm_sent = 0 /\ tm_redraws = 0

other_than_tm == <<nz_vars, cc_vars, app_vars, ext_vars>>

\* the loop is entered after the initial render, both threads running
InitTextMode ==
    /\ tm_pc = "recv"
    /\ tm_chan = <<>>
    /\ tm_stdin = "reading"
    /\ tm_sent = 0
    /\ tm_redraws = 0

tm_running == tm_pc \in {"recv", "drain", "render"}

\* the watcher callback: file_tx.send(TextEvent::FileChange)
WatcherNotify ==
    /\ tm_running
    /\ tm_sent < MaxFileEvents
    /\ tm_chan' = Append(tm_chan, FileChange)
    /\ tm_sent' = tm_sent + 1
    /\ UNCHANGED <<tm_pc, tm_stdin, tm_redraws, other_than_tm>>

\* the stdin thread: read returns 0, stdin_tx.send(TextEvent::StdinClosed);
\* the send fails and is dropped when the receiver is gone
StdinEof ==
    /\ tm_stdin = "reading"
    /\ tm_stdin' = "closed"
    /\ tm_chan' = IF tm_running THEN Append(tm_chan, StdinClosed) ELSE tm_chan
    /\ UNCHANGED <<tm_pc, tm_sent, tm_redraws, other_than_tm>>

\* recv_timeout returns Ok(FileChange)
RecvFileChange ==
    /\ tm_pc = "recv"
    /\ tm_chan # <<>>
    /\ Head(tm_chan) = FileChange
    /\ tm_chan' = Tail(tm_chan)
    /\ tm_pc' = "drain"
    /\ UNCHANGED <<tm_stdin, tm_sent, tm_redraws, other_than_tm>>

\* recv_timeout returns Ok(StdinClosed): break
RecvStdinClosed ==
    /\ tm_pc = "recv"
    /\ tm_chan # <<>>
    /\ Head(tm_chan) = StdinClosed
    /\ tm_chan' = Tail(tm_chan)
    /\ tm_pc' = "exited"
    /\ UNCHANGED <<tm_stdin, tm_sent, tm_redraws, other_than_tm>>

\* recv_timeout returns Err(Timeout): the loop goes round
RecvTimeout ==
    /\ tm_pc = "recv"
    /\ tm_chan = <<>>
    /\ UNCHANGED vars

\* one round of while matches!(rx.try_recv(), Ok(FileChange)) {}: the
\* message received is taken off the channel whatever it is, and the loop
\* goes on only when it was a FileChange
DrainTryRecv ==
    /\ tm_pc = "drain"
    /\ IF tm_chan = <<>>
       THEN /\ tm_pc' = "render"
            /\ UNCHANGED tm_chan
       ELSE /\ tm_chan' = Tail(tm_chan)
            /\ tm_pc' = IF Head(tm_chan) = FileChange THEN "drain" ELSE "render"
    /\ UNCHANGED <<tm_stdin, tm_sent, tm_redraws, other_than_tm>>

\* clear_screen, discover_hosts, render_text_consensus; an error of
\* discover_hosts or of the render is returned from run_text_mode
Render ==
    /\ tm_pc = "render"
    /\ \E ok \in BOOLEAN :
          /\ tm_pc' = IF ok THEN "recv" ELSE "failed"
          /\ tm_redraws' = IF ok THEN tm_redraws + 1 ELSE tm_redraws
    /\ UNCHANGED <<tm_chan, tm_stdin, tm_sent, other_than_tm>>

\* the steps of the main thread that change the state
MainLoop == RecvFileChange \/ RecvStdinClosed \/ DrainTryRecv \/ Render

InitText == InitTextMode /\ nz_Idle /\ cc_Idle /\ app_Idle /\ ext_Idle

NextText ==
    \/ WatcherNotify
    \/ StdinEof
    \/ RecvFileChange
    \/ RecvStdinClosed
    \/ RecvTimeout
    \/ DrainTryRecv
    \/ Render

\* the main thread is never suspended for ever: a step of the loop that
\* stays possible is taken
SpecText == InitText /\ [][NextText]_vars /\ WF_vars(MainLoop)

----------------------------------------------------------------------------
(* Specifications *)

Init == InitApp /\ nz_Idle /\ cc_Idle /\ tm_Idle /\ ext_Idle

Next ==
    \/ Refresh
    \/ RefreshError
    \/ ScrollUp
    \/ ScrollDown
    \/ ToggleExpand
    \/ ExpandSelected
    \/ CollapseSelected
    \/ ExpandAll
    \/ CollapseAll
    \/ JumpToNextDiff
    \/ ToggleTail
    \/ NoKey
    \/ Quit

Spec == Init /\ [][Next]_vars

InitNormalizer == InitNormalize /\ cc_Idle /\ tm_Idle /\ app_Idle /\ ext_Idle

NextNormalizer == NormalizeOnce \/ NormalizeTwice

SpecNormalizer == InitNormalizer /\ [][NextNormalizer]_vars

InitEngine == InitConsensus /\ nz_Idle /\ tm_Idle /\ app_Idle /\ ext_Idle

NextEngine == ComputeConsensus

SpecEngine == InitEngine /\ [][NextEngine]_vars

----------------------------------------------------------------------------
(* ConsensusView alone: a view filled by update_consensus with the         *)
(* consensus of two hosts, then driven by its own methods.  pc = "view".   *)

\* most lines of the sequences given to the view
MaxViewLines == 5

ViewHosts == <<"h1", "h2">>

\* h1 prints "a" on each of its n lines; h2 prints "a" or "b" on each
ViewOutputs ==
    {[h \in Range(ViewHosts) |->
         clean_terminal_output(concat_lines(IF h = "h1" THEN [k \in 1..Len(ls) |-> <<"a">>] ELSE ls))] :
       ls \in SeqsUpTo(LineContents, MaxViewLines)}

\* the step a view took last, and the line_index it started from
ViewOp(name, from) == [op |-> name, clamped |-> FALSE, from |-> from]

\* ConsensusView::new, then update_consensus(compute_consensus(..), true)
InitView ==
    /\ pc = "view"
    /\ hosts = ViewHosts
    /\ last_outputs \in ViewOutputs
    /\ consensus_view =
           update_consensus(new_view, compute_consensus(ViewHosts, last_outputs), TRUE)
    /\ tail_mode = FALSE
    /\ last_op = Op("update_consensus")

\* a method of ConsensusView called on the view
ViewCall(name, new_cv) ==
    /\ pc = "view"
    /\ consensus_view' = new_cv
    /\ last_op' = ViewOp(name, consensus_view.selection.line_index)
    /\ UNCHANGED <<pc, hosts, last_outputs, tail_mode, other_than_app>>

ViewScrollDown == ViewCall("scroll_down", scroll_down(consensus_view))

ViewToggleExpand == ViewCall("toggle_expand", toggle_expand(consensus_view))

ViewJumpToNextDiff == ViewCall("jump_to_next_diff", jump_to_next_diff(consensus_view))

InitViewOnly == InitView /\ nz_Idle /\ cc_Idle /\ tm_Idle /\ ext_Idle

NextView == ViewScrollDown \/ ViewToggleExpand \/ ViewJumpToNextDiff

SpecView == InitViewOnly /\ [][NextView]_vars

----------------------------------------------------------------------------
(* ConsensusView with host groups: a view filled by update_consensus with  *)
(* the consensus of four hosts, each of which printed nothing, the line    *)
(* "a" or the line "<missing>", then driven by its own methods.            *)

GroupOutputs ==
    [Range(GroupHosts) ->
        {clean_terminal_output(concat_lines(ls)) : ls \in {<<>>, <<<<"a">>>>, <<Str_missing>>}}]

\* ConsensusView::new, then update_consensus(compute_consensus(..), true)
InitGroups ==
    /\ pc = "view"
    /\ hosts = GroupHosts
    /\ last_outputs \in GroupOutputs
    /\ consensus_view =
           update_consensus(new_view, compute_consensus(GroupHosts, last_outputs), TRUE)
    /\ tail_mode = FALSE
    /\ last_op = Op("update_consensus")

ViewExpandSelected == ViewCall("expand_selected", expand_selected(consensus_view))

ViewCollapseSelected == ViewCall("collapse_selected", collapse_selected(consensus_view))

InitGroupsOnly == InitGroups /\ nz_Idle /\ cc_Idle /\ tm_Idle /\ ext_Idle

NextGroups == ViewScrollDown \/ ViewExpandSelected \/ ViewCollapseSelected

SpecGroups == InitGroupsOnly /\ [][NextGroups]_vars

----------------------------------------------------------------------------
(* watch::run: the terminal is prepared, run_tui runs, the terminal is     *)
(* restored.  pc is "run" at the call, "enter_screen" and "new_terminal"   *)
(* before these calls, then run_tui's positions, "leave_screen" before     *)
(* LeaveAlternateScreen and "returned" after run has returned.             *)

\* everything but pc and the terminal
run_untouched ==
    <<hosts, last_outputs, consensus_view, tail_mode, last_op,
      nz_vars, cc_vars, tm_vars, kp_vars, fn_vars>>

\* run returns r
run_returns(r) == pc' = "returned" /\ rn_result' = r

InitRun ==
    /\ pc = "run"
    /\ hosts = <<>>
    /\ last_outputs = EmptyMap
    /\ consensus_view = new_view
    /\ tail_mode = TRUE
    /\ last_op = Op("new")
    /\ rn_raw = FALSE
    /\ rn_alt = FALSE
    /\ rn_calls = {}
    /\ rn_result = "none"

\* if !stdout().is_tty() { return run_text_mode(output_dir); }
RunTextMode ==
    /\ pc = "run"
    /\ \E r \in {"ok", "err"} : run_returns(r)
    /\ UNCHANGED <<rn_raw, rn_alt, rn_calls, run_untouched>>

\* enable_raw_mode()?
EnableRawMode ==
    /\ pc = "run"
    /\ \/ rn_raw' = TRUE /\ pc' = "enter_screen" /\ UNCHANGED rn_result
       \/ run_returns("err") /\ UNCHANGED rn_raw
    /\ UNCHANGED <<rn_alt, rn_calls, run_untouched>>

\* stdout().execute(EnterAlternateScreen)?
EnterAlternateScreen ==
    /\ pc = "enter_screen"
    /\ \/ rn_alt' = TRUE /\ pc' = "new_terminal" /\ UNCHANGED rn_result
       \/ run_returns("err") /\ UNCHANGED rn_alt
    /\ UNCHANGED <<rn_raw, rn_calls, run_untouched>>

\* Terminal::new(backend)?, then run_tui is entered with WatchApp::new
TerminalNew ==
    /\ pc = "new_terminal"
    /\ \/ pc' = "init" /\ UNCHANGED rn_result
       \/ run_returns("err")
    /\ UNCHANGED <<rn_raw, rn_alt, rn_calls, run_untouched>>

\* run_tui has returned and its WatchApp is dropped; disable_raw_mode()?
DisableRawMode ==
    /\ pc \in {"done", "failed"}
    /\ rn_calls' = rn_calls \cup {"disable_raw_mode"}
    /\ \/ /\ rn_raw' = FALSE
          /\ pc' = "leave_screen"
          /\ rn_result' = IF pc = "done" THEN "ok" ELSE "err"
       \/ run_returns("err") /\ UNCHANGED rn_raw
    /\ hosts' = <<>>
    /\ last_outputs' = EmptyMap
    /\ consensus_view' = new_view
    /\ tail_mode' = TRUE
    /\ last_op' = Op("dropped")
    /\ UNCHANGED <<rn_alt, nz_vars, cc_vars, tm_vars, kp_vars, fn_vars>>

\* stdout().execute(LeaveAlternateScreen)?; result
LeaveAlternateScreen ==
    /\ pc = "leave_screen"
    /\ rn_calls' = rn_calls \cup {"LeaveAlternateScreen"}
    /\ \/ rn_alt' = FALSE /\ run_returns(rn_result)
       \/ run_returns("err") /\ UNCHANGED rn_alt
    /\ UNCHANGED <<rn_raw, run_untouched>>

InitRunOnly == InitRun /\ nz_Idle /\ cc_Idle /\ tm_Idle /\ kp_Idle /\ fn_Idle

NextRun ==
    \/ RunTextMode
    \/ EnableRawMode
    \/ EnterAlternateScreen
    \/ TerminalNew
    \/ Refresh
    \/ RefreshError
    \/ ScrollUp
    \/ ScrollDown
    \/ ToggleExpand
    \/ ExpandSelected
    \/ CollapseSelected
    \/ ExpandAll
    \/ CollapseAll
    \/ JumpToNextDiff
    \/ ToggleTail
    \/ NoKey
    \/ Quit
    \/ DisableRawMode
    \/ LeaveAlternateScreen

SpecRun == InitRunOnly /\ [][NextRun]_vars

----------------------------------------------------------------------------
(* Functions of the watch session and of the host resolution, each applied *)
(* once to arguments drawn from a bounded set: fn_args names the function  *)
(* and holds its arguments, fn_result its result once fn_pc = "returned".  *)

fn_untouched == <<nz_vars, cc_vars, tm_vars, app_vars, rn_vars, kp_vars>>

Call(name, result) ==
    /\ fn_pc = "call"
    /\ fn_args.fn = name
    /\ fn_result' = result
    /\ fn_pc' = "returned"
    /\ UNCHANGED <<fn_args, fn_untouched>>

returned_from(name) == fn_pc = "returned" /\ fn_args.fn = name

\* most whitespace characters before and after the text of a status file
MaxPad == 1

Str_running == <<"r", "u", "n", "n", "i", "n", "g">>
Str_success == <<"s", "u", "c", "c", "e", "s", "s">>
Str_failed == <<"f", "a", "i", "l", "e", "d">>

\* char::is_whitespace, on the characters of the model
is_whitespace(c) == c \in {SP, TAB, LF, CR}

\* str::trim: without its leading and trailing whitespace
trim(s) ==
    LET solid == {i \in 1..Len(s) : ~is_whitespace(s[i])}
    IN IF solid = {} THEN <<>>
       ELSE SubSeq(s, CHOOSE i \in solid : \A j \in solid : i <= j,
                      CHOOSE i \in solid : \A j \in solid : j <= i)

\* Status::from_str without the trim
from_str_untrimmed(s) ==
    IF s = Str_running THEN "Running"
    ELSE IF s = Str_success THEN "Success"
    ELSE IF s = Str_failed THEN "Failed"
    ELSE "Pending"

\* Status::from_str
from_str(s) ==
    LET t == trim(s)
    IN IF t = Str_running THEN "Running"
       ELSE IF t = Str_success THEN "Success"
       ELSE IF t = Str_failed THEN "Failed"
       ELSE "Pending"

\* read_status: file is None when <host>/status is absent or unreadable
read_status(file) == IF file = None THEN "Pending" ELSE from_str(file[1])

\* what a status file may hold between its whitespace
StatusTexts ==
    {Str_running, Str_success, Str_failed, <<>>,
     <<"R", "u", "n", "n", "i", "n", "g">>,
     <<"r", "u", "n">>,
     <<"p", "e", "n", "d", "i", "n", "g">>,
     Str_running \o <<SP>> \o Str_failed,
     Str_success \o <<LF>> \o Str_success}

\* the status files with at most pad whitespace characters on each side
StatusFiles(pad) ==
    {None} \cup {Some(l \o w \o t) : l \in SeqsUpTo({SP, TAB, LF, CR}, pad),
                                      t \in SeqsUpTo({SP, TAB, LF, CR}, pad),
                                      w \in StatusTexts}

ReadStatusCalls(pad) == {[fn |-> "read_status", file |-> f] : f \in StatusFiles(pad)}

ReadStatus == Call("read_status", read_status(fn_args.file))

\* the characters of entry names in code point order; xFE and xFF are
\* bytes that are no valid UTF-8, REPLACEMENT is U+FFFD
REPLACEMENT == "U+FFFD"
CodePoints ==
    <<".", "1", "2", "c", "e", "h", "k", "m", "o", "p", "s", "t", "u", "x", REPLACEMENT>>
code_point(c) == CHOOSE i \in 1..Len(CodePoints) : CodePoints[i] = c

\* Ord for String: a is before b or equal to it
RECURSIVE str_le(_, _)
str_le(a, b) ==
    IF a = <<>> THEN TRUE
    ELSE IF b = <<>> THEN FALSE
    ELSE IF Head(a) = Head(b) THEN str_le(Tail(a), Tail(b))
    ELSE code_point(Head(a)) < code_point(Head(b))

\* Vec<String>::sort
RECURSIVE sort_strings(_)
sort_strings(v) ==
    IF v = <<>> THEN <<>>
    ELSE LET rest == sort_strings(Tail(v))
             before == {i \in 1..Len(rest) : ~str_le(Head(v), rest[i])}
         IN SubSeq(rest, 1, Cardinality(before)) \o <<Head(v)>>
              \o SubSeq(rest, Cardinality(before) + 1, Len(rest))

\* OsStr::to_string_lossy: every invalid byte becomes U+FFFD
to_string_lossy(name) ==
    [i \in 1..Len(name) |-> IF name[i] \in {"xFE", "xFF"} THEN REPLACEMENT ELSE name[i]]

Str_tmux_sock == <<"t", "m", "u", "x", ".", "s", "o", "c", "k">>

\* the names an entry of the output directory may have
EntryNames ==
    <<<<"h", "2">>, <<"h", "1">>, <<".", "k", "e", "e", "p">>, Str_tmux_sock,
      <<"xFE">>, <<"xFF">>>>

\* an output directory: what each name is, "none", "file" (a plain file or
\* a socket) or "dir", in the order read_dir yields the entries
Listings == [1..Len(EntryNames) -> {"none", "file", "dir"}]

\* the loop of discover_hosts over the entries from the k-th on
RECURSIVE push_hosts(_, _, _)
push_hosts(listing, k, found) ==
    IF k > Len(EntryNames) THEN found
    ELSE LET name == to_string_lossy(EntryNames[k])
         IN push_hosts(listing, k + 1,
                       IF listing[k] = "dir" /\ Head(name) # "." /\ name # Str_tmux_sock
                       THEN Append(found, name) ELSE found)

\* discover_hosts without its hosts.sort()
discover_hosts_unsorted(listing) == push_hosts(listing, 1, <<>>)

\* discover_hosts on an output directory that exists and can be listed
discover_hosts_listed(listing) == sort_strings(push_hosts(listing, 1, <<>>))

DiscoverHostsCalls == {[fn |-> "discover_hosts", listing |-> l] : l \in Listings}

DiscoverHosts == Call("discover_hosts", discover_hosts_listed(fn_args.listing))

\* char::to_lowercase, on the letters that are upper case in the model
lower(c) ==
    CASE c = "P" -> "p" [] c = "Y" -> "y" [] c = "N" -> "n"
      [] c = "R" -> "r" [] c = "E" -> "e" [] c = "S" -> "s"
      [] OTHER -> c

\* str::to_lowercase
to_lowercase(s) == [i \in 1..Len(s) |-> lower(s[i])]

\* str::contains(&str)
str_contains(s, pattern) ==
    \E i \in 1..(Len(s) - Len(pattern) + 1) : SubSeq(s, i, i + Len(pattern) - 1) = pattern

INPUT_PROMPT_PATTERNS ==
    <<<<"p", "a", "s", "s", "w", "o", "r", "d", ":">>,
      <<"p", "a", "s", "s", "p", "h", "r", "a", "s", "e">>,
      <<"[", "y", "/", "n", "]">>,
      <<"[", "Y", "/", "n", "]">>,
      <<"[", "n", "/", "Y", "]">>,
      <<"[", "y", "e", "s", "/", "n", "o", "]">>,
      <<"(", "y", "e", "s", "/", "n", "o", ")">>,
      <<"c", "o", "n", "t", "i", "n", "u", "e", "?">>,
      <<"p", "r", "o", "c", "e", "e", "d", "?">>,
      <<"c", "o", "n", "f", "i", "r", "m">>,
      <<"e", "n", "t", "e", "r", SP, "t", "o", SP, "c", "o", "n", "t", "i", "n", "u", "e">>,
      <<"p", "r", "e", "s", "s", SP, "e", "n", "t", "e", "r">>,
      <<"p", "r", "e", "s", "s", SP, "a", "n", "y", SP, "k", "e", "y">>,
      <<":", SP, "$">>,
      <<"?", SP, "$">>,
      <<">", SP>>,
      <<"r", "e", "a", "d", ">">>>>

\* the number of characters detect_input_prompt looks at
TailChars == 500

\* detect_input_prompt that searches the whole output
detect_input_prompt_everywhere(output) ==
    \E k \in 1..Len(INPUT_PROMPT_PATTERNS) :
        str_contains(to_lowercase(output), to_lowercase(INPUT_PROMPT_PATTERNS[k]))

\* detect_input_prompt: chars().rev().take(500) reversed back, lower-cased
detect_input_prompt(output) ==
    LET tail == SubSeq(output, IF Len(output) > TailChars THEN Len(output) - TailChars + 1 ELSE 1,
                       Len(output))
        tail_lower == to_lowercase(tail)
    IN \E k \in 1..Len(INPUT_PROMPT_PATTERNS) :
           str_contains(tail_lower, to_lowercase(INPUT_PROMPT_PATTERNS[k]))

\* WatchApp::refresh: the keys of waiting_for_input, given the host list,
\* the statuses and the raw outputs read in this refresh
waiting_for_input(hs, statuses, raw_outputs) ==
    {h \in Range(hs) : statuses[h] = "Running" /\ detect_input_prompt(raw_outputs[h])}

\* what a log may hold before the characters that follow it
PromptTexts ==
    {<<"P", "a", "s", "s", "w", "o", "r", "d", ":">>,
     <<"P", "r", "o", "c", "e", "e", "d", "?", SP, "[", "Y", "/", "n", "]">>,
     <<"P", "R", "E", "S", "S", SP, "E", "N", "T", "E", "R">>,
     <<"r", "e", "a", "d", ">">>,
     <<"d", "o", "n", "e">>,
     <<"$", SP>>}

\* the numbers of characters that follow
FillerLens == {0} \cup (TailChars - 10)..(TailChars + 1)

RawLogs == {t \o [i \in 1..n |-> "."] : t \in PromptTexts, n \in FillerLens}

WaitingCalls ==
    {[fn |-> "waiting_for_input", hosts |-> <<"h1", "h2">>,
      statuses |-> [h \in {"h1", "h2"} |-> IF h = "h1" THEN st ELSE "Running"],
      raw_outputs |-> [h \in {"h1", "h2"} |-> IF h = "h1" THEN raw ELSE other]] :
        st \in {"Pending", "Running", "Success", "Failed"},
        raw \in RawLogs,
        other \in {<<"(", "y", "e", "s", "/", "n", "o", ")", "?">>}}

WaitingForInput ==
    Call("waiting_for_input",
         waiting_for_input(fn_args.hosts, fn_args.statuses, fn_args.raw_outputs))

\* most characters of a string given to truncate
MaxTruncLen == 5

\* the strings of at most len characters, cut to 0..(len + 1) characters
TruncateCalls(len) ==
    {[fn |-> "truncate", s |-> str, max_chars |-> n] :
        str \in SeqsUpTo({"a", E_ACUTE, PARTY_POPPER}, len), n \in 0..(len + 1)}

Truncate == Call("truncate", truncate(fn_args.s, fn_args.max_chars))

\* str::split(sep): the segments between the separators, empty ones too
RECURSIVE split_at(_, _, _)
split_at(s, sep, cur) ==
    IF s = <<>> THEN <<cur>>
    ELSE IF Head(s) = sep THEN <<cur>> \o split_at(Tail(s), sep, <<>>)
    ELSE split_at(Tail(s), sep, Append(cur, Head(s)))

\* .filter(|s| !s.is_empty())
without_empty(v) == SelectSeq(v, LAMBDA x : x # <<>>)

\* TagFilter
All == [kind |-> "All"]
Groups(groups) == [kind |-> "Groups", groups |-> groups]

\* Result
Ok(value) == [ok |-> TRUE, value |-> value]
Err(message) == [ok |-> FALSE, message |-> message]

parse_tag_filter(spec) ==
    LET stripped == IF spec # <<>> /\ Head(spec) = ":" THEN Tail(spec) ELSE spec
        pieces == split_at(stripped, ",", <<>>)
        groups == without_empty([i \in 1..Len(pieces) |->
                                    without_empty(split_at(pieces[i], ":", <<>>))])
    IN IF stripped = <<>> THEN All
       ELSE IF groups = <<>> THEN All
       ELSE Groups(groups)

\* matches_filter with any tag of a group in place of all of them
matches_filter_any_tag(host, filter) ==
    \/ filter.kind = "All"
    \/ \E g \in 1..Len(filter.groups) :
           \E t \in 1..Len(filter.groups[g]) : filter.groups[g][t] \in host.tags

matches_filter(host, filter) ==
    \/ filter.kind = "All"
    \/ \E g \in 1..Len(filter.groups) :
           \A t \in 1..Len(filter.groups[g]) : filter.groups[g][t] \in host.tags

\* resolve_hosts on the TaggedHosts loaded from a file or a command and
\* the filter argument, None or Some(text)
resolve_hosts(loaded, filter) ==
    IF filter # None /\ filter[1] = <<":">> THEN Err("Empty tag filter")
    ELSE LET filtered ==
                 IF filter = None THEN loaded
                 ELSE SelectSeq(loaded,
                                LAMBDA h : matches_filter(h, parse_tag_filter(filter[1])))
         IN IF filtered = <<>> THEN Err("No hosts match filter")
            ELSE Ok([i \in 1..Len(filtered) |-> filtered[i].hostname])

\* most characters of a filter argument
MaxFilterLen == 5

TagNames == {<<"a">>, <<"b">>}

\* what the source holds: nothing, or h2 and h1 in this order with tags
LoadedHosts ==
    {<<>>} \cup {<<[hostname |-> "h2", tags |-> t2], [hostname |-> "h1", tags |-> t1]>> :
                    t1 \in SUBSET TagNames, t2 \in SUBSET TagNames}

\* no filter, or a filter text of at most len characters
FilterArgs(len) == {None} \cup {Some(f) : f \in SeqsUpTo({":", ",", "a", "b"}, len)}

ResolveHostsCalls(len) ==
    {[fn |-> "resolve_hosts", loaded |-> l, filter |-> f] :
        l \in LoadedHosts, f \in FilterArgs(len)}

ResolveHosts == Call("resolve_hosts", resolve_hosts(fn_args.loaded, fn_args.filter))

\* one function is about to be called
InitCalls ==
    /\ fn_pc = "call"
    /\ \/ fn_args \in ReadStatusCalls(MaxPad)
       \/ fn_args \in DiscoverHostsCalls
       \/ fn_args \in WaitingCalls
       \/ fn_args \in TruncateCalls(MaxTruncLen)
       \/ fn_args \in ResolveHostsCalls(MaxFilterLen)
    /\ fn_result = <<>>

InitFunctions == InitCalls /\ nz_Idle /\ cc_Idle /\ tm_Idle /\ app_Idle /\ rn_Idle /\ kp_Idle

NextFunctions ==
    \/ ReadStatus
    \/ DiscoverHosts
    \/ WaitingForInput
    \/ Truncate
    \/ ResolveHosts

SpecFunctions == InitFunctions /\ [][NextFunctions]_vars

----------------------------------------------------------------------------
(* WatchApp.keep_output and the .keep marker of the output directory.      *)
(* kp_trace holds, for WatchApp::new and for every event after it, what    *)
(* happened and the flag and the marker after it.                          *)

\* most events after WatchApp::new
MaxKeepEvents == 4

kp_untouched == <<nz_vars, cc_vars, tm_vars, app_vars, rn_vars, fn_vars>>

KeepEvent(op, ok, keep, marker) ==
    [op |-> op, ok |-> ok, keep_output |-> keep, marker |-> marker]

\* toggle_keep that creates the marker when the flag is turned off
toggle_keep_inverted(keep, marker, ok) ==
    [keep_output |-> ~keep, marker |-> IF ok THEN keep ELSE marker]

\* toggle_keep: the flag is flipped, then fs::write creates the marker or
\* fs::remove_file removes it; ok tells whether that call succeeded
toggle_keep(keep, marker, ok) ==
    [keep_output |-> ~keep, marker |-> IF ok THEN ~keep ELSE marker]

\* WatchApp::new: keep_output = output_dir.join(".keep").exists()
InitKeep ==
    /\ kp_marker \in BOOLEAN
    /\ kp_keep_output = kp_marker
    /\ kp_trace = <<KeepEvent("new", TRUE, kp_keep_output, kp_marker)>>

\* tmux attach has returned and run_command has cleaned up
cleaned_up == kp_trace # <<>> /\ kp_trace[Len(kp_trace)].op = "cleanup"

\* the key K
ToggleKeep ==
    /\ ~cleaned_up
    /\ Len(kp_trace) <= MaxKeepEvents
    /\ \E ok \in BOOLEAN :
          LET after == toggle_keep(kp_keep_output, kp_marker, ok)
          IN /\ kp_keep_output' = after.keep_output
             /\ kp_marker' = after.marker
             /\ kp_trace' = Append(kp_trace,
                                   KeepEvent("toggle_keep", ok, after.keep_output, after.marker))
    /\ UNCHANGED kp_untouched

\* another process creates or removes the marker
MarkerTouched ==
    /\ ~cleaned_up
    /\ Len(kp_trace) <= MaxKeepEvents
    /\ kp_marker' = ~kp_marker
    /\ kp_trace' = Append(kp_trace, KeepEvent("touched", TRUE, kp_keep_output, ~kp_marker))
    /\ UNCHANGED <<kp_keep_output, kp_untouched>>

\* a cleanup that looks at --keep only
cleanup_ignoring_marker(keep, marker, ok) ==
    IF ~keep
    THEN [removed |-> ok, marker |-> IF ok THEN FALSE ELSE marker,
          result |-> IF ok THEN "Ok" ELSE "Err"]
    ELSE [removed |-> FALSE, marker |-> IF ok THEN FALSE ELSE marker, result |-> "Ok"]

\* the end of run_command for the flag --keep and the marker found by
\* keep_marker.exists(): fs::remove_dir_all(&output_dir)?, or
\* let _ = fs::remove_file(&keep_marker); ok tells whether the call made
\* succeeded.  The result tells whether the directory is gone, whether the
\* marker is left and what run_command returns.
cleanup(keep, marker, ok) ==
    IF ~keep /\ ~marker
    THEN [removed |-> ok, marker |-> FALSE, result |-> IF ok THEN "Ok" ELSE "Err"]
    ELSE [removed |-> FALSE, marker |-> IF ok THEN FALSE ELSE marker, result |-> "Ok"]

\* run_command after tmux attach has returned, started with or without --keep
Cleanup ==
    /\ ~cleaned_up
    /\ \E keep \in BOOLEAN, ok \in BOOLEAN :
          LET after == cleanup(keep, kp_marker, ok)
          IN /\ kp_marker' = after.marker
             /\ kp_trace' = Append(kp_trace,
                    [op |-> "cleanup", ok |-> ok, keep_output |-> kp_keep_output,
                     marker |-> after.marker, keep |-> keep, found |-> kp_marker,
                     removed |-> after.removed, result |-> after.result])
    /\ UNCHANGED <<kp_keep_output, kp_untouched>>

InitKeepOnly == InitKeep /\ nz_Idle /\ cc_Idle /\ tm_Idle /\ app_Idle /\ rn_Idle /\ fn_Idle

NextKeep == ToggleKeep \/ MarkerTouched \/ Cleanup

SpecKeep == InitKeepOnly /\ [][NextKeep]_vars

----------------------------------------------------------------------------
(* Properties of the selection state machine (Spec) *)

sel == consensus_view.selection

\* C1: variant_index is Some only if the line at line_index is a Differs
\* line with expanded = true, after any sequence of operations
C1_VariantOnlyOnExpandedDiffers ==
    sel.variant_index # None =>
        is_expanded_differs(consensus_view.consensus, sel.line_index)

\* the selection is on the first virtual row
at_first_row(cv) ==
    cv.selection.line_index = 0 /\ cv.selection.variant_index = None

\* the selection is on the last virtual row: the main row of the last line
\* when that line is not expanded, its last variant or missing row otherwise
at_last_row(cv) ==
    /\ cv.consensus # <<>>
    /\ cv.selection.line_index = Len(cv.consensus) - 1
    /\ IF is_expanded_differs(cv.consensus, cv.selection.line_index)
       THEN cv.selection.variant_index =
                Some(variant_count(cv.consensus[cv.selection.line_index + 1]) - 1)
       ELSE cv.selection.variant_index = None

\* the position of the selection in the order of the virtual rows
row_rank(cv) ==
    <<cv.selection.line_index,
      IF cv.selection.variant_index = None THEN 0 ELSE cv.selection.variant_index[1] + 1>>

rank_le(a, b) == a[1] < b[1] \/ (a[1] = b[1] /\ a[2] <= b[2])

\* C6: scroll_up on the first virtual row and scroll_down on the last
\* virtual row leave the selection unchanged, and scroll_down never moves
\* the selection to an earlier virtual row
C6_ScrollStopsAtBoundaries ==
    [][/\ (ScrollUp /\ at_first_row(consensus_view))
              => consensus_view'.selection = consensus_view.selection
       /\ (ScrollDown /\ at_last_row(consensus_view))
              => consensus_view'.selection = consensus_view.selection
       /\ ScrollDown => rank_le(row_rank(consensus_view), row_rank(consensus_view'))]_vars

\* C10: line_index is at most len(consensus) - 1 when the consensus is not
\* empty and 0 when it is empty, after every refresh and every operation
C10_LineIndexInRange ==
    IF consensus_view.consensus = <<>>
    THEN sel.line_index = 0
    ELSE sel.line_index <= Len(consensus_view.consensus) - 1

\* with tail mode off, a refresh has just replaced the consensus by a
\* shorter, non-empty one and clamp_selection pulled line_index back onto
\* its last line
C10_Witness_ShrunkAndClamped ==
    /\ ~tail_mode
    /\ last_op.op = "refresh_recomputed"
    /\ last_op.clamped
    /\ consensus_view.consensus # <<>>
    /\ sel.line_index = Len(consensus_view.consensus) - 1

----------------------------------------------------------------------------
(* Properties of the consensus engine (SpecEngine) *)

cc_computed == cc_pc = "computed"

\* the number of lines of a host's output
line_count(h) == Len(lines(cc_outputs[h]))

\* the line of host h at the 1-based position p
line_of(h, p) == lines(cc_outputs[h])[p]

\* the hosts that have a line at position p
hosts_with_line(p) == {h \in Range(cc_hosts) : p <= line_count(h)}

\* the place of a host in the host list
host_rank(h) == CHOOSE k \in 1..Len(cc_hosts) : cc_hosts[k] = h

\* the place in the host list of the first host whose line at p is content
first_seen(content, p) ==
    Least({host_rank(h) : h \in {g \in hosts_with_line(p) : line_of(g, p) = content}})

differs_positions == {p \in 1..Len(cc_result) : cc_result[p].kind = "Differs"}

\* C2: the consensus of a Differs line is the content of the largest
\* group, the first one encountered among several largest; it is the key
\* of the first entry of variants
C2_ConsensusIsFirstVariant ==
    cc_computed =>
        \A p \in differs_positions :
            LET line == cc_result[p]
            IN /\ line.consensus = line.variants[1].content
               /\ \A i \in 1..Len(line.variants) :
                     line.variants[i].content = line.consensus =>
                        /\ \A j \in 1..Len(line.variants) :
                              Len(line.variants[j].hosts) <= Len(line.variants[i].hosts)
                        /\ \A j \in 1..Len(line.variants) :
                              Len(line.variants[j].hosts) = Len(line.variants[i].hosts) =>
                                 first_seen(line.consensus, p) <= first_seen(line.variants[j].content, p)

\* the hosts recorded as missing at position p
missing_at(p) ==
    IF cc_result[p].kind = "Differs" THEN Range(cc_result[p].missing) ELSE {}

\* C7: the result has as many lines as the longest output, and a host is in
\* missing exactly at the positions at or beyond its own line count
C7_LengthAndMissing ==
    cc_computed =>
        /\ \A h \in Range(cc_hosts) : line_count(h) <= Len(cc_result)
        /\ Len(cc_result) > 0 => \E h \in Range(cc_hosts) : line_count(h) = Len(cc_result)
        /\ \A p \in 1..Len(cc_result) : \A h \in Range(cc_hosts) :
              h \in missing_at(p) <=> p > line_count(h)

\* a host with a shorter output than another is missing at the last position
C7_Witness_ShorterHostMissing ==
    /\ cc_computed
    /\ Len(cc_result) = MaxLines
    /\ \E h \in Range(cc_hosts) :
          /\ line_count(h) < Len(cc_result)
          /\ h \in missing_at(Len(cc_result))
          /\ line_count(h) > 0 => h \notin missing_at(1)

\* C8: a line is Identical exactly when every host has a line there and all
\* these lines are equal, and it carries that content; hosts with the same
\* text give only Identical lines, one per line of the text, in order
C8_IdenticalLines ==
    cc_computed =>
        /\ \A p \in 1..Len(cc_result) :
              /\ cc_result[p].kind = "Identical" <=>
                    /\ hosts_with_line(p) = Range(cc_hosts)
                    /\ Cardinality({line_of(h, p) : h \in Range(cc_hosts)}) = 1
              /\ cc_result[p].kind = "Identical" =>
                    \A h \in Range(cc_hosts) : cc_result[p].content = line_of(h, p)
        /\ (cc_hosts # <<>> /\ \A g, h \in Range(cc_hosts) : cc_outputs[g] = cc_outputs[h]) =>
              LET common == lines(cc_outputs[cc_hosts[1]])
              IN cc_result = [p \in 1..Len(common) |-> Identical(common[p])]

\* several hosts with the same text of MaxLines lines gave MaxLines Identical lines
C8_Witness_SameText ==
    /\ cc_computed
    /\ Len(cc_hosts) >= 2
    /\ \A g, h \in Range(cc_hosts) : cc_outputs[g] = cc_outputs[h]
    /\ Len(cc_result) = MaxLines
    /\ \A p \in 1..Len(cc_result) : cc_result[p].kind = "Identical"

\* C9: the variants of a Differs line are in descending order of group
\* size, groups of equal size in the order in which their content was first
\* encountered in the host list; the majority of a 2-versus-1 split is
\* first, with 2 hosts
C9_VariantsSortedStable ==
    cc_computed =>
        \A p \in differs_positions :
            LET v == cc_result[p].variants
            IN /\ \A i, j \in 1..Len(v) :
                     i < j =>
                        /\ Len(v[i].hosts) >= Len(v[j].hosts)
                        /\ Len(v[i].hosts) = Len(v[j].hosts) =>
                              first_seen(v[i].content, p) < first_seen(v[j].content, p)
               /\ (Cardinality(hosts_with_line(p)) = 3 /\ Len(v) = 2) =>
                     /\ Len(v[1].hosts) = 2
                     /\ Cardinality({h \in hosts_with_line(p) : line_of(h, p) = v[1].content}) = 2

\* a 2-versus-1 split whose minority content is the one encountered first:
\* the sort moved the majority in front of it
C9_Witness_MajorityMovedFirst ==
    /\ cc_computed
    /\ \E p \in differs_positions :
          LET v == cc_result[p].variants
          IN /\ Len(v) = 2
             /\ Len(v[1].hosts) = 2
             /\ first_seen(v[2].content, p) < first_seen(v[1].content, p)

----------------------------------------------------------------------------
(* Properties of the output normalizer (SpecNormalizer) *)

\* letters and the space: characters no branch of the normalizer removes
PlainChars == {c \in RawChars \cup Range(Str_hello_cr_world) \cup Range(Str_hello_cr_hi) :
                  c = SP \/ is_ascii_alphabetic(c)}

\* the carriage-return overwrite of every line of a text
overwritten_lines(raw) ==
    LET ls == lines(raw)
    IN join_lf([i \in 1..Len(ls) |-> overwrite_all(<<>>, split_cr(ls[i], <<>>))])

\* C3: in a text of letters, spaces, CR and LF every segment between CRs
\* overwrites the line from column 0; "hello\rhi" gives "hillo" and
\* "hello\rworld" gives "world"
C3_CarriageReturnOverwrite ==
    nz_pc # "raw" =>
        /\ (\A i \in 1..Len(nz_raw) : nz_raw[i] \in PlainChars \cup {CR, LF}) =>
              nz_once = overwritten_lines(nz_raw)
        /\ nz_raw = Str_hello_cr_hi => nz_once = Str_hillo
        /\ nz_raw = Str_hello_cr_world => nz_once = Str_world

\* C4: normalizing a normalized text changes nothing
C4_Idempotent == nz_pc = "twice" => nz_twice = nz_once

\* t is what s ends with
ends_with(s, t) ==
    Len(t) <= Len(s) /\ SubSeq(s, Len(s) - Len(t) + 1, Len(s)) = t

\* C23: strip_ansi_and_control returns a text for every line, and when an
\* OSC or DCS introducer at position k is never terminated (only letters
\* and spaces follow it up to the end of the line), the letters and spaces
\* that follow the introducer are still in the output
C23_TextAfterTruncatedSequenceKept ==
    nz_pc # "raw" =>
        \A k \in 1..Len(nz_raw) :
            LET text == SubSeq(nz_raw, k + 2, Len(nz_raw))
            IN (/\ nz_raw[k] = ESC
                /\ k + 1 <= Len(nz_raw)
                /\ nz_raw[k + 1] \in {"]", "P"}
                /\ text # <<>>
                /\ \A i \in 1..Len(text) : text[i] \in PlainChars)
               => ends_with(strip_ansi_and_control(nz_raw), text)

----------------------------------------------------------------------------
(* Properties of the text mode loop (SpecText) *)

\* C5: once the stdin thread has sent StdinClosed, the main loop
\* eventually exits
C5_ExitsAfterStdinClosed ==
    (tm_stdin = "closed") ~> (tm_pc \in {"exited", "failed"})

----------------------------------------------------------------------------
(* Properties of WatchApp::refresh (Spec) *)

\* the step is a refresh that found hosts and the cached outputs unchanged
refresh_unchanged_step == last_op'.op = "refresh_unchanged"

\* the step is a refresh that found hosts and recomputed the consensus
refresh_recomputed_step == last_op'.op = "refresh_recomputed"

\* C11: a refresh that finds hosts and the same normalized outputs as the
\* cached ones leaves the consensus sequence, every expanded flag, every
\* expanded_hosts set, the selection and the cache unchanged (the loop's
\* tail-mode scroll_to_end is all that follows it)
C11_UnchangedOutputsKeepView ==
    [][refresh_unchanged_step =>
          /\ hosts' # <<>>
          /\ last_outputs' = last_outputs
          /\ consensus_view'.consensus = consensus_view.consensus
          /\ consensus_view' = follow_tail(consensus_view, tail_mode)
          /\ ~tail_mode => consensus_view'.selection = consensus_view.selection]_vars

\* with tail mode off, a refresh found the outputs unchanged while a variant
\* row is selected and a host list is expanded
C11_Witness_UnchangedWithExpandedHosts ==
    /\ last_op.op = "refresh_unchanged"
    /\ ~tail_mode
    /\ sel.variant_index # None
    /\ \E k \in 1..Len(consensus_view.consensus) :
          /\ consensus_view.consensus[k].kind = "Differs"
          /\ consensus_view.consensus[k].expanded_hosts # {}

\* C12: after a recompute line i is expanded exactly when line i was an
\* expanded Differs line before and line i of the new sequence is a Differs
\* line: the flags are restored by line index
C12_ExpandedRestoredByIndex ==
    [][refresh_recomputed_step =>
          \A k \in 1..Len(consensus_view'.consensus) :
              (is_expanded_differs(consensus_view'.consensus, k - 1))
                 <=> /\ is_expanded_differs(consensus_view.consensus, k - 1)
                     /\ is_differs(consensus_view'.consensus, k - 1)]_vars

\* a recompute has just restored the expanded flag of the second line and
\* left the first one collapsed
C12_Witness_RestoredSecondLine ==
    /\ last_op.op = "refresh_recomputed"
    /\ Len(consensus_view.consensus) = 2
    /\ is_expanded_differs(consensus_view.consensus, 1)
    /\ is_differs(consensus_view.consensus, 0)
    /\ ~is_expanded_differs(consensus_view.consensus, 0)

----------------------------------------------------------------------------
(* The virtual rows of a view: one row per Identical or collapsed Differs  *)
(* line; a main row, one row per variant and a missing row per expanded    *)
(* Differs line *)

rows_of_line(line) ==
    IF line.kind = "Differs" /\ line.expanded THEN 1 + variant_count(line) ELSE 1

\* the number of virtual rows of the first n lines
RECURSIVE rows_before(_, _)
rows_before(consensus, n) ==
    IF n = 0 THEN 0 ELSE rows_before(consensus, n - 1) + rows_of_line(consensus[n])

\* the selection designates a virtual row of the view
on_virtual_row(cv) ==
    /\ cv.selection.line_index < Len(cv.consensus)
    /\ cv.selection.variant_index # None =>
          /\ is_expanded_differs(cv.consensus, cv.selection.line_index)
          /\ cv.selection.variant_index[1] < variant_count(cv.consensus[cv.selection.line_index + 1])

\* the index of the selected virtual row, from 0
virtual_row(cv) ==
    rows_before(cv.consensus, cv.selection.line_index)
        + (IF cv.selection.variant_index = None THEN 0 ELSE 1 + cv.selection.variant_index[1])

\* line 0 is an expanded Differs line with 2 variants and no missing host
\* and another line follows it
two_variant_head(cv) ==
    /\ Len(cv.consensus) >= 2
    /\ is_expanded_differs(cv.consensus, 0)
    /\ Len(cv.consensus[1].variants) = 2
    /\ cv.consensus[1].missing = <<>>

selection_is(cv, li, vi) == cv.selection = [line_index |-> li, variant_index |-> vi]

\* C13: from a virtual row that is not the last one scroll_down moves to
\* the next virtual row, from one that is not the first scroll_up moves to
\* the previous one; on an expanded 2-variant line followed by another line
\* scroll_down goes (0,None), (0,Some 0), (0,Some 1), (1,None) and scroll_up
\* the same rows in reverse
C13_ScrollMovesOneRow ==
    [][/\ (ScrollDown /\ on_virtual_row(consensus_view) /\ ~at_last_row(consensus_view)) =>
              /\ on_virtual_row(consensus_view')
              /\ virtual_row(consensus_view') = virtual_row(consensus_view) + 1
       /\ (ScrollUp /\ on_virtual_row(consensus_view) /\ ~at_first_row(consensus_view)) =>
              /\ on_virtual_row(consensus_view')
              /\ virtual_row(consensus_view') = virtual_row(consensus_view) - 1
       /\ (ScrollDown /\ two_variant_head(consensus_view)) =>
              /\ selection_is(consensus_view, 0, None) => selection_is(consensus_view', 0, Some(0))
              /\ selection_is(consensus_view, 0, Some(0)) => selection_is(consensus_view', 0, Some(1))
              /\ selection_is(consensus_view, 0, Some(1)) => selection_is(consensus_view', 1, None)
       /\ (ScrollUp /\ two_variant_head(consensus_view)) =>
              /\ selection_is(consensus_view, 1, None) => selection_is(consensus_view', 0, Some(1))
              /\ selection_is(consensus_view, 0, Some(1)) => selection_is(consensus_view', 0, Some(0))
              /\ selection_is(consensus_view, 0, Some(0)) => selection_is(consensus_view', 0, None)
       /\ (ScrollDown \/ ScrollUp) => consensus_view'.consensus = consensus_view.consensus]_vars

\* a manual scroll has reached the last variant of an expanded 2-variant
\* first line that another line follows
C13_Witness_OnLastVariant ==
    /\ last_op.op = "key"
    /\ ~tail_mode
    /\ pc = "refresh"
    /\ two_variant_head(consensus_view)
    /\ selection_is(consensus_view, 0, Some(1))

----------------------------------------------------------------------------
(* Properties of jump_to_next_diff (SpecView) *)

\* the indices of the Differs lines of a view
differs_indices(cv) == {j \in 0..(Len(cv.consensus) - 1) : is_differs(cv.consensus, j)}

\* C14: jump_to_next_diff selects the smallest index after the current one
\* that holds a Differs line, expanded or not; if there is none, the
\* smallest such index in 0..=current; if there is no Differs line the
\* selection is unchanged; from index 4 with Differs lines only at 1 and 4
\* it lands on 1
C14_JumpToNextDiffWraps ==
    [][ViewJumpToNextDiff =>
          LET cur == consensus_view.selection.line_index
              new == consensus_view'.selection.line_index
              after == {j \in differs_indices(consensus_view) : j > cur}
              upto == {j \in differs_indices(consensus_view) : j <= cur}
          IN /\ after # {} => (new \in after /\ \A j \in after : new <= j)
             /\ (after = {} /\ upto # {}) => (new \in upto /\ \A j \in upto : new <= j)
             /\ differs_indices(consensus_view) = {} =>
                    consensus_view'.selection = consensus_view.selection
             /\ (differs_indices(consensus_view) = {1, 4} /\ cur = 4) => new = 1
             /\ consensus_view'.consensus = consensus_view.consensus]_vars

\* with Differs lines only at indices 1 and 4, a jump from index 4 has
\* wrapped to index 1
C14_Witness_WrappedTo1 ==
    /\ last_op.op = "jump_to_next_diff"
    /\ last_op.from = 4
    /\ differs_indices(consensus_view) = {1, 4}
    /\ sel.line_index = 1

----------------------------------------------------------------------------
(* Properties of the expand and collapse operations (Spec) *)

\* the lines other than line i (0-based) are the same in both sequences
same_except_line(old, new, i) ==
    /\ Len(new) = Len(old)
    /\ \A k \in 1..Len(old) : k # i + 1 => new[k] = old[k]

\* the host group the selection designates on an expanded Differs line:
\* the hosts of the selected variant, the missing hosts on the missing row
selected_group(line, k) ==
    IF k < Len(line.variants) THEN line.variants[k + 1].hosts
    ELSE IF k = Len(line.variants) THEN line.missing
    ELSE <<>>

\* the key of that group in expanded_hosts
selected_key(line, k) ==
    IF k < Len(line.variants) THEN line.variants[k + 1].content ELSE Str_missing

\* C15: expand_selected never moves the cursor and changes at most one
\* flag: expanded becomes true on a collapsed Differs line; the key of the
\* selected variant or missing row of an expanded Differs line enters
\* expanded_hosts when its group has more than one host; nothing changes on
\* an Identical line, on the main row of an expanded Differs line and on a
\* group of one host
C15_ExpandSelectedOneFlag ==
    [][ExpandSelected =>
          LET old == consensus_view.consensus
              new == consensus_view'.consensus
              i == consensus_view.selection.line_index
              vi == consensus_view.selection.variant_index
          IN /\ consensus_view'.selection = consensus_view.selection
             /\ same_except_line(old, new, i)
             /\ ~is_differs(old, i) => new = old
             /\ (is_differs(old, i) /\ ~old[i + 1].expanded) =>
                    new[i + 1] = [old[i + 1] EXCEPT !.expanded = TRUE]
             /\ (is_expanded_differs(old, i) /\ vi = None) => new = old
             /\ (is_expanded_differs(old, i) /\ vi # None) =>
                    IF Len(selected_group(old[i + 1], vi[1])) > 1
                    THEN new[i + 1] = [old[i + 1] EXCEPT !.expanded_hosts =
                                          @ \cup {selected_key(old[i + 1], vi[1])}]
                    ELSE new = old]_vars

\* the host lists of a variant and of the missing row of one line are both
\* expanded
C15_Witness_HostListsExpanded ==
    /\ last_op.op = "key"
    /\ \E k \in 1..Len(consensus_view.consensus) :
          LET line == consensus_view.consensus[k]
          IN /\ line.kind = "Differs"
             /\ line.expanded
             /\ \E e \in line.expanded_hosts : e # Str_missing
    /\ \E k \in 1..Len(consensus_view.consensus) :
          /\ consensus_view.consensus[k].kind = "Differs"
          /\ Str_missing \in consensus_view.consensus[k].expanded_hosts

\* C16: collapse_selected, in this priority: with a variant selected whose
\* host list is expanded, only that key leaves expanded_hosts and the
\* cursor stays; with any other variant selected the cursor moves to the
\* previous variant, to the main row from variant 0, and no flag changes;
\* on the main row of an expanded Differs line expanded becomes false and
\* expanded_hosts empty; on the main row of an Identical or collapsed line
\* nothing changes
C16_CollapseSelectedStages ==
    [][CollapseSelected =>
          LET old == consensus_view.consensus
              new == consensus_view'.consensus
              i == consensus_view.selection.line_index
              vi == consensus_view.selection.variant_index
          IN /\ same_except_line(old, new, i)
             /\ (is_differs(old, i) /\ vi # None) =>
                    IF selected_key(old[i + 1], vi[1]) \in old[i + 1].expanded_hosts
                    THEN /\ new[i + 1] = [old[i + 1] EXCEPT !.expanded_hosts =
                                             @ \ {selected_key(old[i + 1], vi[1])}]
                         /\ consensus_view'.selection = consensus_view.selection
                    ELSE /\ new = old
                         /\ selection_is(consensus_view', i,
                                         IF vi[1] > 0 THEN Some(vi[1] - 1) ELSE None)
             /\ (is_expanded_differs(old, i) /\ vi = None) =>
                    /\ new[i + 1] = [old[i + 1] EXCEPT !.expanded = FALSE, !.expanded_hosts = {}]
                    /\ consensus_view'.selection = consensus_view.selection
             /\ (~is_expanded_differs(old, i) /\ vi = None) =>
                    consensus_view' = consensus_view]_vars

\* a key was handled; the selected line is a collapsed Differs line with no
\* expanded host list while the other line is still expanded with one
C16_Witness_CollapsedBesideExpanded ==
    /\ last_op.op = "key"
    /\ Len(consensus_view.consensus) = 2
    /\ is_differs(consensus_view.consensus, sel.line_index)
    /\ sel.variant_index = None
    /\ ~consensus_view.consensus[sel.line_index + 1].expanded
    /\ consensus_view.consensus[sel.line_index + 1].expanded_hosts = {}
    /\ is_expanded_differs(consensus_view.consensus, 1 - sel.line_index)
    /\ consensus_view.consensus[2 - sel.line_index].expanded_hosts # {}

\* C17: toggle_expand flips the expanded flag of the Differs line at
\* line_index wherever the cursor is in that line, leaves every
\* expanded_hosts set and every other line unchanged, changes nothing on an
\* Identical line, and applied twice gives back the expansion state
C17_ToggleExpandFlips ==
    [][ToggleExpand =>
          LET old == consensus_view.consensus
              new == consensus_view'.consensus
              i == consensus_view.selection.line_index
          IN /\ same_except_line(old, new, i)
             /\ is_differs(old, i) =>
                    new[i + 1] = [old[i + 1] EXCEPT !.expanded = ~old[i + 1].expanded]
             /\ ~is_differs(old, i) => consensus_view' = consensus_view
             /\ toggle_expand(consensus_view').consensus = old]_vars

\* a key was handled; a variant row of a collapsed Differs line is still
\* selected and the line kept an expanded host list
C17_Witness_ToggledOnVariantRow ==
    /\ last_op.op = "key"
    /\ pc = "refresh"
    /\ sel.variant_index # None
    /\ is_differs(consensus_view.consensus, sel.line_index)
    /\ ~consensus_view.consensus[sel.line_index + 1].expanded
    /\ consensus_view.consensus[sel.line_index + 1].expanded_hosts # {}

\* the rendered result of the whole view: a viewport that holds every row
rendered(cv) ==
    build_display_lines(cv, 0, 1 + rows_before(cv.consensus, Len(cv.consensus)))

\* the Lines rendered for the consensus line i
rendered_for_line(cv, i) ==
    {k \in 1..Len(rendered(cv)) :
        rendered(cv)[k].row \in {"identical", "main", "variant", "missing"}
           /\ rendered(cv)[k].line = i}

\* old and new differ only in the expanded flags, which are e on every
\* Differs line of new
all_flags_set(old, new, e) ==
    /\ Len(new) = Len(old)
    /\ \A k \in 1..Len(old) :
          IF old[k].kind = "Differs"
          THEN new[k] = [old[k] EXCEPT !.expanded = e]
          ELSE new[k] = old[k]

\* C18: expand_all sets and collapse_all clears expanded on every Differs
\* line; after collapse_all every consensus line is rendered as exactly one
\* row, none of them a variant or missing row; the expanded_hosts sets are
\* kept, so that expand_all afterwards renders the same host lists expanded
C18_ExpandAllCollapseAll ==
    [][/\ ExpandAll => all_flags_set(consensus_view.consensus, consensus_view'.consensus, TRUE)
       /\ CollapseAll =>
              /\ all_flags_set(consensus_view.consensus, consensus_view'.consensus, FALSE)
              /\ \A i \in 0..(Len(consensus_view'.consensus) - 1) :
                    Cardinality(rendered_for_line(consensus_view', i)) = 1
              /\ \A k \in 1..Len(rendered(consensus_view')) :
                    rendered(consensus_view')[k].row \notin {"variant", "missing"}
              /\ rendered(expand_all(consensus_view')) = rendered(expand_all(consensus_view))]_vars

\* a key was handled; both lines are collapsed Differs lines and each kept
\* an expanded host list
C18_Witness_CollapsedWithHostLists ==
    /\ last_op.op = "key"
    /\ pc = "refresh"
    /\ Len(consensus_view.consensus) = 2
    /\ \A k \in 1..2 :
          /\ consensus_view.consensus[k].kind = "Differs"
          /\ ~consensus_view.consensus[k].expanded
          /\ consensus_view.consensus[k].expanded_hosts # {}

----------------------------------------------------------------------------
(* Properties of scroll_to_end and calculate_scroll_offset (Spec) *)

\* the step is the t key turning tail mode on: toggle_tail calls scroll_to_end
tail_turned_on == ToggleTail /\ tail_mode'

\* C19: on a non-empty sequence scroll_to_end selects the last line and its
\* last virtual row: variant_index is Some(variants + (1 if missing) - 1)
\* on an expanded Differs line and None otherwise; on an empty sequence it
\* changes nothing
C19_ScrollToEndSelectsLastRow ==
    [][tail_turned_on =>
          LET c == consensus_view.consensus
              last == Len(c) - 1
          IN /\ consensus_view'.consensus = c
             /\ c = <<>> => consensus_view' = consensus_view
             /\ c # <<>> =>
                   /\ consensus_view'.selection.line_index = last
                   /\ consensus_view'.selection.variant_index =
                         IF c[last + 1].kind = "Differs" /\ c[last + 1].expanded
                         THEN Some(Len(c[last + 1].variants)
                                   + (IF c[last + 1].missing # <<>> THEN 1 ELSE 0) - 1)
                         ELSE None
                   /\ at_last_row(consensus_view')]_vars

\* tail mode is on after a key and the missing row of the expanded last
\* line, the second of two lines, is selected
C19_Witness_TailOnMissingRow ==
    /\ last_op.op = "key"
    /\ pc = "refresh"
    /\ tail_mode
    /\ Len(consensus_view.consensus) = 2
    /\ is_expanded_differs(consensus_view.consensus, 1)
    /\ consensus_view.consensus[2].missing # <<>>
    /\ selection_is(consensus_view, 1, Some(Len(consensus_view.consensus[2].variants)))

\* the index of the selected virtual row; 0 in a view without lines
selected_row(cv) == IF cv.consensus = <<>> THEN 0 ELSE virtual_row(cv)

\* C20: for every viewport height h >= 1 calculate_scroll_offset returns
\* the least offset o with o <= r < o + h for the index r of the selected
\* virtual row: 0 when r < h and r - h + 1 otherwise
C20_MinimalScrollOffset ==
    \A h \in 1..MaxViewport :
        LET o == calculate_scroll_offset(consensus_view, h)
            r == selected_row(consensus_view)
        IN /\ o <= r
           /\ r < o + h
           /\ \A o2 \in 0..r : (o2 <= r /\ r < o2 + h) => o <= o2
           /\ o = (IF r < h THEN 0 ELSE r - h + 1)

\* the selected row is a variant row of the second line, below every
\* viewport of the heights checked: the offset must be positive
C20_Witness_SelectionBelowViewport ==
    /\ pc = "poll"
    /\ sel.line_index = 1
    /\ sel.variant_index # None
    /\ on_virtual_row(consensus_view)
    /\ selected_row(consensus_view) > MaxViewport

\* C21: a refresh never fails: whatever the state of the output directory
\* it completes with empty or default values, and no refresh, the initial
\* one included, returns an error that ends the interactive session
C21_RefreshNeverFails ==
    /\ last_op.op # "refresh_failed"
    /\ pc # "failed"

\* what the view draws in a viewport of the height h
drawn(cv, h) == build_display_lines(cv, calculate_scroll_offset(cv, h), h)

all_outputs_empty == \A h \in DOMAIN last_outputs : last_outputs[h] = <<>>

\* C27: with host directories whose outputs are all empty the consensus is
\* empty and what is drawn is the single placeholder "(no output yet)";
\* without host directories the consensus is empty and what is drawn is
\* the single placeholder "No host directories found..."
C27_EmptyPlaceholders ==
    /\ (hosts # <<>> /\ all_outputs_empty) =>
           /\ consensus_view.consensus = <<>>
           /\ \A h \in 1..MaxViewport : drawn(consensus_view, h) = <<[row |-> "no_output"]>>
    /\ hosts = <<>> =>
           /\ consensus_view.consensus = <<>>
           /\ \A h \in 1..MaxViewport : drawn(consensus_view, h) = <<[row |-> "no_hosts"]>>

\* a refresh found two host directories, both without output
C27_Witness_TwoHostsNoOutput ==
    /\ pc = "poll"
    /\ last_op.op = "refresh_recomputed"
    /\ Len(hosts) = 2
    /\ all_outputs_empty
    /\ drawn(consensus_view, 1) = <<[row |-> "no_output"]>>

----------------------------------------------------------------------------
(* Properties of watch::run (SpecRun) *)

\* raw mode was enabled: it is on, or it was on when it was disabled
raw_mode_was_enabled == rn_raw \/ "disable_raw_mode" \in rn_calls

\* C22: whenever run has returned after raw mode was enabled, the
\* restoration of the terminal was attempted before: disable_raw_mode and
\* LeaveAlternateScreen were both called
C22_RestoreAttemptedBeforeReturn ==
    (pc = "returned" /\ raw_mode_was_enabled) =>
        rn_calls = {"disable_raw_mode", "LeaveAlternateScreen"}

----------------------------------------------------------------------------
(* Properties of the functions (SpecFunctions) *)

\* s is w with nothing but whitespace before and after it
is_padded(s, w) ==
    \E i \in 1..(Len(s) + 1) :
        /\ i + Len(w) - 1 <= Len(s)
        /\ SubSeq(s, i, i + Len(w) - 1) = w
        /\ \A k \in 1..Len(s) : (k < i \/ k >= i + Len(w)) => s[k] \in {SP, TAB, LF, CR}

status_file_says(w) == fn_args.file # None /\ is_padded(fn_args.file[1], w)

\* C24: a host's status is Running, Success or Failed exactly when its
\* status file can be read and holds "running", "success" or "failed"
\* between whitespace, and Pending in every other case
C24_StatusFromTrimmedContent ==
    returned_from("read_status") =>
        /\ fn_result = "Running" <=> status_file_says(Str_running)
        /\ fn_result = "Success" <=> status_file_says(Str_success)
        /\ fn_result = "Failed" <=> status_file_says(Str_failed)
        /\ fn_result = "Pending" <=>
               ~ \E w \in {Str_running, Str_success, Str_failed} : status_file_says(w)
        /\ fn_result \in {"Pending", "Running", "Success", "Failed"}

\* the file the command script writes with echo: "success" and a newline
C24_Witness_SuccessWithNewline ==
    /\ returned_from("read_status")
    /\ fn_args.file = Some(Str_success \o <<LF>>)
    /\ fn_result = "Success"

\* the entries of the listed output directory that are subdirectories
\* with a name that neither starts with a dot nor is tmux.sock
host_entries ==
    {i \in 1..Len(EntryNames) : /\ fn_args.listing[i] = "dir"
                                /\ Head(EntryNames[i]) # "."
                                /\ EntryNames[i] # Str_tmux_sock}

host_directories == {EntryNames[k] : k \in host_entries}


\* C25 as stated: the host list is exactly the names of the
\* subdirectories whose name neither starts with a dot nor is tmux.sock,
\* in ascending order and without duplicates
C25_HostsAreTheSubdirectories ==
    returned_from("discover_hosts") =>
        /\ Range(fn_result) = host_directories
        /\ \A i \in 1..(Len(fn_result) - 1) :
               str_le(fn_result[i], fn_result[i + 1]) /\ fn_result[i] # fn_result[i + 1]

\* C25 amended: the host list has one name for every subdirectory whose name
\* neither starts with a dot nor is tmux.sock, plain files never give a
\* host, and the list is in ascending order; the name is the lossy UTF-8
\* conversion of the directory's name, so when all names are valid UTF-8
\* the list is exactly the set of these directory names, without duplicates
C25_HostsAreTheLossyNames ==
    returned_from("discover_hosts") =>
        /\ Len(fn_result) = Cardinality(host_entries)
        /\ Range(fn_result) = {to_string_lossy(EntryNames[k]) : k \in host_entries}
        /\ \A i \in 1..(Len(fn_result) - 1) : str_le(fn_result[i], fn_result[i + 1])
        /\ (\A k \in host_entries : to_string_lossy(EntryNames[k]) = EntryNames[k]) =>
               /\ Range(fn_result) = host_directories
               /\ \A i \in 1..(Len(fn_result) - 1) : fn_result[i] # fn_result[i + 1]

\* h2 and h1 are directories, read in this order, .keep and tmux.sock are
\* files: the hosts are h1, h2
C25_Witness_TwoHostsBesideFiles ==
    /\ returned_from("discover_hosts")
    /\ fn_args.listing = <<"dir", "dir", "file", "file", "none", "none">>
    /\ fn_result = <<<<"h", "1">>, <<"h", "2">>>>

----------------------------------------------------------------------------
(* Properties of the keep marker (SpecKeep) *)

\* every event so far is a toggle_keep whose file operation succeeded
undisturbed ==
    \A i \in 2..Len(kp_trace) : kp_trace[i].op = "toggle_keep" /\ kp_trace[i].ok

\* C26: keep_output starts as the existence of the .keep marker; every
\* toggle_keep flips it and, its file operation succeeding, leaves the
\* marker present exactly when keep_output is true; as long as every file
\* operation succeeds and nobody else touches the marker, keep_output is
\* true exactly when the marker exists, and two toggles restore both
C26_KeepOutputMirrorsMarker ==
    kp_trace # <<>> =>
        /\ kp_trace[1].keep_output = kp_trace[1].marker
        /\ kp_keep_output = kp_trace[Len(kp_trace)].keep_output
        /\ kp_marker = kp_trace[Len(kp_trace)].marker
        /\ \A i \in 2..Len(kp_trace) :
               kp_trace[i].op = "toggle_keep" =>
                   /\ kp_trace[i].keep_output = ~kp_trace[i - 1].keep_output
                   /\ kp_trace[i].ok => kp_trace[i].marker = kp_trace[i].keep_output
        /\ undisturbed =>
               /\ \A i \in 1..Len(kp_trace) : kp_trace[i].keep_output = kp_trace[i].marker
               /\ \A i \in 3..Len(kp_trace) :
                      /\ kp_trace[i].keep_output = kp_trace[i - 2].keep_output
                      /\ kp_trace[i].marker = kp_trace[i - 2].marker

\* the marker existed, K was pressed twice: it was removed and is back
C26_Witness_ToggledTwice ==
    /\ Len(kp_trace) = 3
    /\ undisturbed
    /\ kp_trace[1].marker
    /\ ~kp_trace[2].marker
    /\ kp_marker /\ kp_keep_output

\* a prompt pattern, compared without regard to case, stands in the raw
\* output at a position among its last TailChars characters
prompt_in_tail(raw) ==
    \E k \in 1..Len(INPUT_PROMPT_PATTERNS) :
        LET pattern == INPUT_PROMPT_PATTERNS[k]
        IN \E i \in 1..(Len(raw) - Len(pattern) + 1) :
               /\ i > Len(raw) - TailChars
               /\ to_lowercase(SubSeq(raw, i, i + Len(pattern) - 1)) = to_lowercase(pattern)

C29_TruncateCountsCharacters ==
    returned_from("truncate") =>
        LET str == fn_args.s
            max == fn_args.max_chars
        IN /\ Len(str) <= max => fn_result = str
           /\ Len(str) > max =>
                  fn_result = SubSeq(str, 1, IF max >= 3 THEN max - 3 ELSE 0) \o <<".", ".", ".">>
           /\ max >= 3 => Len(fn_result) <= max
           /\ \A i \in 1..Len(fn_result) : fn_result[i] \in Range(str) \cup {"."}

\* five multi-byte characters cut to four: one character and the ellipsis
C29_Witness_MultiByteCut ==
    /\ returned_from("truncate")
    /\ fn_args.max_chars = 4
    /\ Len(fn_args.s) = 5
    /\ \A i \in 1..5 : len_utf8(fn_args.s[i]) > 1
    /\ fn_result = <<fn_args.s[1], ".", ".", ".">>

\* the tags written in the filter text f: the maximal runs of characters
\* other than ':' and ',', as pairs of their first and last position
tag_runs(f) ==
    {r \in (1..Len(f)) \X (1..Len(f)) :
        /\ r[1] <= r[2]
        /\ \A i \in r[1]..r[2] : f[i] \notin {":", ","}
        /\ r[1] = 1 \/ f[r[1] - 1] \in {":", ","}
        /\ r[2] = Len(f) \/ f[r[2] + 1] \in {":", ","}}

\* two runs stand in the same comma-separated group
same_group(f, r, q) ==
    \A i \in 1..Len(f) : f[i] = "," => ((i < r[1]) <=> (i < q[1]))

\* the comma-separated pieces of f, as pairs of positions (first, last + 1)
pieces_of(f) ==
    {p \in (1..(Len(f) + 1)) \X (1..(Len(f) + 1)) :
        /\ p[1] <= p[2]
        /\ \A i \in p[1]..(p[2] - 1) : f[i] # ","
        /\ p[1] = 1 \/ f[p[1] - 1] = ","
        /\ p[2] = Len(f) + 1 \/ f[p[2]] = ","}

\* the hosts h of the loaded list with keep(h), in the order of the list
kept_in_order(loaded, keep(_)) ==
    LET chosen == SelectSeq(loaded, keep)
    IN [i \in 1..Len(chosen) |-> chosen[i].hostname]

\* the result the statement asks for: an error for the filter ":" and for
\* an empty selection, the kept hosts otherwise
resolved_as(keep(_)) ==
    LET want == kept_in_order(fn_args.loaded, keep)
    IN IF fn_args.filter = Some(<<":">>) \/ want = <<>>
       THEN ~fn_result.ok
       ELSE fn_result.ok /\ fn_result.value = want

\* C30 as stated: a host is kept exactly when at least one comma-separated
\* group of the filter has all of its tags in the host's tag set; the
\* kept hosts are returned in source order; an empty result and the
\* filter ":" are errors
C30_KeptIffSomeGroupMatches ==
    returned_from("resolve_hosts") =>
        LET f == IF fn_args.filter = None THEN <<>> ELSE fn_args.filter[1]
            keep(h) ==
                \/ fn_args.filter = None
                \/ \E p \in pieces_of(f) :
                       \A r \in tag_runs(f) :
                           (p[1] <= r[1] /\ r[2] < p[2]) => SubSeq(f, r[1], r[2]) \in h.tags
        IN resolved_as(keep)

\* C30 amended: groups without a tag are ignored; a host is kept exactly
\* when the filter holds no tag at all or at least one of its groups has
\* all of its tags in the host's tag set; the kept hosts are returned in
\* source order; an empty result and the filter ":" are errors
C30_KeptIffSomeTaggedGroupMatches ==
    returned_from("resolve_hosts") =>
        LET f == IF fn_args.filter = None THEN <<>> ELSE fn_args.filter[1]
            keep(h) ==
                \/ tag_runs(f) = {}
                \/ \E r \in tag_runs(f) :
                       \A q \in tag_runs(f) :
                           same_group(f, r, q) => SubSeq(f, q[1], q[2]) \in h.tags
        IN resolved_as(keep)

\* the filter :a:b on h2 tagged a and h1 tagged a and b: h1 alone is kept
C30_Witness_AndGroupKeepsOne ==
    /\ returned_from("resolve_hosts")
    /\ fn_args.filter = Some(<<":", "a", ":", "b">>)
    /\ fn_args.loaded = <<[hostname |-> "h2", tags |-> {<<"a">>}],
                          [hostname |-> "h1", tags |-> {<<"a">>, <<"b">>}]>>
    /\ fn_result = Ok(<<"h1">>)

----------------------------------------------------------------------------
(* Properties of tail mode (Spec) *)

\* C31: while tail mode is on, at the end of every iteration of the loop
\* (after the refresh and the scroll_to_end that follows it) the selection
\* is on the last line of a non-empty consensus and on its last virtual
\* row, whatever key the iteration handled and however the output changed
C31_TailKeepsSelectionAtEnd ==
    (pc = "poll" /\ tail_mode /\ consensus_view.consensus # <<>>) =>
        at_last_row(consensus_view)

\* tail mode is on and a refresh has just recomputed the consensus: the
\* output has grown to MaxLines lines, the last line took over the expanded
\* flag set by a key before, and the selection is on its last variant row
C31_Witness_FollowedOntoExpandedLine ==
    /\ pc = "poll"
    /\ tail_mode
    /\ last_op.op = "refresh_recomputed"
    /\ Len(consensus_view.consensus) = MaxLines
    /\ is_expanded_differs(consensus_view.consensus, MaxLines - 1)
    /\ sel.variant_index # None
    /\ at_last_row(consensus_view)

----------------------------------------------------------------------------
(* Properties of the debounce loop of the text mode (SpecText) *)

\* the main loop leaves the debounce loop and goes on to the redraw
drain_ends == tm_pc = "drain" /\ tm_pc' = "render"

\* C32: a burst of FileChange notifications is drained before the redraw:
\* when the debounce loop ends no FileChange that was queued is left on the
\* channel, and there are never more redraws than notifications
C32_BurstDrainedBeforeRedraw ==
    /\ [](tm_redraws <= tm_sent)
    /\ [][drain_ends => \A i \in 1..Len(tm_chan') : tm_chan'[i] # FileChange]_vars

----------------------------------------------------------------------------
(* Properties of the cleanup of run_command (SpecKeep) *)

\* the event run_command's cleanup left in the trace
cleanup_event == kp_trace[Len(kp_trace)]

----------------------------------------------------------------------------
(* Properties of the tail-mode flag (Spec) *)

\* the step is state.refresh(), succeeding or failing, with what follows it
\* in run_tui: the only steps taken from these two positions of the loop
refresh_called == pc \in {"init", "refresh"}

\* a step of an operation other than scroll_up, scroll_down and toggle_tail
other_operation ==
    \/ ToggleExpand \/ ExpandSelected \/ CollapseSelected \/ ExpandAll \/ CollapseAll
    \/ JumpToNextDiff \/ NoKey \/ Quit \/ refresh_called

\* C34: tail mode starts enabled; scroll_up and scroll_down turn it off,
\* also when the selection does not move; toggle_tail flips it and, when it
\* turns it on, performs scroll_to_end at once; it is turned on by
\* toggle_tail only, and no other operation (expand_selected,
\* collapse_selected, toggle_expand, expand_all, collapse_all,
\* jump_to_next_diff, toggle_keep, refresh) changes it
C34_TailModeFlag ==
    /\ [](last_op.op = "new" => tail_mode)
    /\ [][/\ (ScrollUp \/ ScrollDown) => ~tail_mode'
          /\ ToggleTail =>
                 /\ tail_mode' = ~tail_mode
                 /\ consensus_view' = IF tail_mode' THEN scroll_to_end(consensus_view)
                                      ELSE consensus_view
          /\ (tail_mode' /\ ~tail_mode) => ToggleTail
          /\ other_operation => tail_mode' = tail_mode]_vars

\* a key has turned tail mode off and the selection is still on the last
\* virtual row of two lines: scroll_down did not move it
C34_Witness_TailOffAtLastRow ==
    /\ pc = "refresh"
    /\ last_op.op = "key"
    /\ ~tail_mode
    /\ Len(consensus_view.consensus) = 2
    /\ at_last_row(consensus_view)

----------------------------------------------------------------------------
(* Properties of the selection after a refresh (Spec) *)

\* C35: in every reachable state, whenever variant_index is Some(k), k is a
\* virtual-row index of the line at line_index: that line is a Differs line
\* and k < variants.len() + (1 if missing is non-empty else 0); also after
\* a refresh replaced an expanded Differs line by one with fewer variants
\* or without missing hosts
C35_VariantIndexInRange ==
    sel.variant_index # None =>
        /\ is_differs(consensus_view.consensus, sel.line_index)
        /\ sel.variant_index[1] < variant_count(consensus_view.consensus[sel.line_index + 1])

----------------------------------------------------------------------------
(* Properties of the rendering of the selection (Spec) *)

\* the row carries the selection style
styled_selected(r) == "selected" \in DOMAIN r /\ r.selected

\* the row is the one (line_index, variant_index) addresses
addressed(r, selection) ==
    /\ "line" \in DOMAIN r
    /\ r.line = selection.line_index
    /\ IF selection.variant_index = None
       THEN r.row \in {"identical", "main"}
       ELSE r.row \in {"variant", "missing"} /\ Some(r.idx) = selection.variant_index

\* C36: in every reachable state with a non-empty consensus, for every
\* viewport height >= 1, the rows build_display_lines builds for the offset
\* calculate_scroll_offset returns contain exactly one row styled as
\* selected, and it is the row addressed by (line_index, variant_index);
\* also after toggle_expand, collapse_all, jump_to_next_diff or a refresh
\* executed while a variant was selected
C36_ExactlyOneSelectedRow ==
    consensus_view.consensus # <<>> =>
        \A h \in 1..MaxViewport :
            LET rows == drawn(consensus_view, h)
                styled == {i \in 1..Len(rows) : styled_selected(rows[i])}
            IN /\ Cardinality(styled) = 1
               /\ \A i \in styled : addressed(rows[i], sel)

----------------------------------------------------------------------------
(* Properties of the change detection of WatchApp::refresh (Spec) *)

\* the step taken last is a refresh that returned Ok
refreshed ==
    last_op.op \in {"refresh_recomputed", "refresh_unchanged", "refresh_no_hosts"}

\* the lines with their view flags as make_differs creates them
without_flags(consensus) ==
    [k \in 1..Len(consensus) |->
        IF consensus[k].kind = "Differs"
        THEN [consensus[k] EXCEPT !.expanded = FALSE, !.expanded_hosts = {}]
        ELSE consensus[k]]

----------------------------------------------------------------------------
(* Properties of the grouping of compute_consensus (SpecEngine) *)

\* the hosts of a group are in the order of the host list
in_host_order(group) ==
    \A a, b \in 1..Len(group) : a < b => host_rank(group[a]) < host_rank(group[b])

\* how often host h stands in the groups of the variants v and in missing m
occurrences(h, v, m) ==
    Cardinality({<<i, j>> \in (1..Len(v)) \X (1..Len(cc_hosts)) :
                    j <= Len(v[i].hosts) /\ v[i].hosts[j] = h})
        + Cardinality({j \in 1..Len(m) : m[j] = h})

\* the sum of the group sizes
RECURSIVE group_sizes(_)
group_sizes(v) == IF v = <<>> THEN 0 ELSE Len(Head(v).hosts) + group_sizes(Tail(v))

\* C38: at every Differs position of the result each host of the host list
\* stands exactly once, in the group keyed by its line content at the
\* position or, having no line there, in missing; groups have distinct
\* keys; the hosts of each group and of missing are in host-list order; a
\* Differs line has at least one variant; the group sizes and the size of
\* missing add up to the number of hosts.  h1 printing "a" and h2 printing
\* "b" give one Differs line with the variants a:[h1], b:[h2] and nobody
\* missing
C38_GroupsPartitionHosts ==
    cc_computed =>
        /\ \A p \in differs_positions :
              LET v == cc_result[p].variants
                  m == cc_result[p].missing
              IN /\ Len(v) >= 1
                 /\ \A h \in Range(cc_hosts) : occurrences(h, v, m) = 1
                 /\ \A i \in 1..Len(v) :
                       /\ v[i].hosts # <<>>
                       /\ in_host_order(v[i].hosts)
                       /\ \A j \in 1..Len(v[i].hosts) :
                             /\ v[i].hosts[j] \in hosts_with_line(p)
                             /\ line_of(v[i].hosts[j], p) = v[i].content
                       /\ \A k \in 1..Len(v) : k # i => v[k].content # v[i].content
                 /\ in_host_order(m)
                 /\ \A j \in 1..Len(m) : m[j] \in Range(cc_hosts) \ hosts_with_line(p)
                 /\ group_sizes(v) + Len(m) = Len(cc_hosts)
        /\ (cc_hosts = <<"h1", "h2">> /\ cc_outputs["h1"] = <<"a">> /\ cc_outputs["h2"] = <<"b">>) =>
              /\ Len(cc_result) = 1
              /\ cc_result[1].kind = "Differs"
              /\ cc_result[1].variants = <<[content |-> <<"a">>, hosts |-> <<"h1">>],
                                           [content |-> <<"b">>, hosts |-> <<"h2">>]>>
              /\ cc_result[1].missing = <<>>

\* of three hosts two print the same line at a position, in one group in
\* host-list order, and the third has no line there
C38_Witness_GroupOfTwoAndMissing ==
    /\ cc_computed
    /\ Len(cc_hosts) = 3
    /\ \E p \in differs_positions :
          /\ Len(cc_result[p].variants) = 1
          /\ Len(cc_result[p].variants[1].hosts) = 2
          /\ Len(cc_result[p].missing) = 1

----------------------------------------------------------------------------
(* Properties of the host-list expansion (SpecGroups) *)

\* the gutter build_display_lines gives row g (0-based, variants first,
\* then the missing row) of the expanded Differs line i
gutter_of(cv, i, g) == display_rows_of_line(cv, i)[g + 2].gutter

\* C39: host-list expansion is local to one group: in an expanded Differs
\* line expand_selected or collapse_selected on the missing row or on a
\* variant row changes the host-list display of that row only, whatever
\* the line contents are
C39_HostListExpansionIsLocal ==
    [][((ViewExpandSelected \/ ViewCollapseSelected)
            /\ is_expanded_differs(consensus_view.consensus, sel.line_index)
            /\ sel.variant_index # None
            /\ on_virtual_row(consensus_view)) =>
          \A g \in 0..(variant_count(consensus_view.consensus[sel.line_index + 1]) - 1) :
              g # sel.variant_index[1] =>
                  gutter_of(consensus_view', sel.line_index, g)
                      = gutter_of(consensus_view, sel.line_index, g)]_vars

----------------------------------------------------------------------------
(* Properties of expanded_hosts (Spec) *)

\* the keys expand_selected may put into expanded_hosts of a line: the
\* contents of its variants with more than one host, and the missing
\* marker when more than one host is missing
expandable_keys(line) ==
    {line.variants[k].content : k \in {j \in 1..Len(line.variants) : Len(line.variants[j].hosts) > 1}}
        \cup (IF Len(line.missing) > 1 THEN {Str_missing} ELSE {})

differs_lines(cv) == {k \in 1..Len(cv.consensus) : cv.consensus[k].kind = "Differs"}

\* C40: host-list expansion does not survive a recompute: right after a
\* refresh in which the normalized outputs changed expanded_hosts is empty
\* on every Differs line; and in every reachable state expanded_hosts of a
\* line holds only keys of that line's variants with more than one host,
\* or the missing marker when more than one host is missing
C40_ExpandedHostsResetAndValid ==
    /\ last_op.op = "refresh_recomputed" =>
           \A k \in differs_lines(consensus_view) :
               consensus_view.consensus[k].expanded_hosts = {}
    /\ \A k \in differs_lines(consensus_view) :
           consensus_view.consensus[k].expanded_hosts
               \subseteq expandable_keys(consensus_view.consensus[k])

\* a refresh has just recomputed the consensus: a line with a group of two
\* hosts took over the expanded flag, and its host lists are collapsed
C40_Witness_RestoredWithoutHostLists ==
    /\ last_op.op = "refresh_recomputed"
    /\ \E k \in differs_lines(consensus_view) :
          /\ consensus_view.consensus[k].expanded
          /\ expandable_keys(consensus_view.consensus[k]) # {}
          /\ consensus_view.consensus[k].expanded_hosts = {}

====
